---- MODULE Spec2Model ----
(***************************************************************************)
(* Model of the structure parser of meta-repo-seed                         *)
(* (src/src/structure_parser: parser.py, models.py, exceptions.py).        *)
(*                                                                         *)
(* Python strings are sequences of atoms: a string is a tuple of pieces    *)
(* such as <<"1", ".", "0">> or <<"a", "/", "b">>, so that startswith,     *)
(* split and the substring test are computed on the pieces.  A decoded     *)
(* JSON value is the record [t, s, c]: its type tag, its scalar payload    *)
(* and its children, each child an entry [k, v] (k is the key of an        *)
(* object member and <<>> for an array element).  A Python dict is the     *)
(* sequence of its entries in insertion order.                             *)
(***************************************************************************)
EXTENDS Integers, Sequences, FiniteSets, TLC

VARIABLES
    validator,  \* parser session: self.validator, None or a SchemaValidator
    content,    \* parser session: the text handed to parse_string / parse_file
    vr,         \* outcome of StructureParser.validate on the decoded text
    ps,         \* outcome of StructureParser.parse_string(content)
    pf,         \* outcome of StructureParser.parse_file on a file holding content
    exported,   \* text written by export_structure
    rt,         \* outcome of parse_file on the exported file
    mig,        \* outcome of _migrate_structure on the parsed data
    mig2,       \* outcome of _migrate_structure on the migrated data
    result,     \* result session: a ValidationResult object
    errCalls,   \* number of add_error calls made on result
    warnCalls,  \* number of add_warning calls made on result
    heap,       \* copy session: the list and dict objects, by address
    source,     \* the StructureData handed to _migrate_v1_to_v2
    migrated,   \* the StructureData it returned
    touched,    \* which of the two the caller changed afterwards, in order
    sourceBefore,   \* the source's field values and tree when migration began
    migratedAfter,  \* the result's field values and tree when it was returned
    tree,       \* tree session: the structure of a StructureData
    allDirs,    \* what get_all_directories() returned
    allFiles,   \* what get_all_files() returned
    probe,      \* a has_directory(path) call and what it returned
    dirFiles,   \* a get_directory_files(path) call and its outcome
    clock,      \* snapshot session: the second datetime.now() is in
    dirA,       \* a directory on disk: [parent, name, tree]
    dirB,       \* another directory on disk
    snapA,      \* what scan_structure returned for dirA
    snapB,      \* what scan_structure returned for dirB
    made,       \* a FileTemplate constructed directly
    rebuilt,    \* outcome of DirectoryStructure.from_dict on a template document
    diffAB,     \* what compare_structures(snapA, snapB) returned
    diffBA,     \* what compare_structures(snapB, snapA) returned
    store,      \* store session: the files of templates_dir and of its parent
    saved,      \* for each name, the structure of the last save_structure that returned
    saves,      \* number of save_structure calls made
    listing,    \* what list_structures() returned since the last save
    loaded,     \* a load_structure(name) call since the last save and its outcome
    fs,         \* sync session: the directory that holds the sync targets
    config,     \* config['sync_rules'] of the synchronizer
    time,       \* the second datetime.now() is in
    syncs,      \* number of sync_structure calls made
    lastSync,   \* the last sync_structure call: its arguments, the tree before
                \* it, the changes it made in order, and what it raised
    repo,       \* initializer session: the target directory
    dryRun,     \* RepositoryInitializer.dry_run
    structureFile,  \* the text of the structure file
    inits,      \* number of initialize_repository calls made
    lastInit    \* the last initialize_repository call: the target before it,
                \* the changes it made in order, and what it returned

None == [kind |-> "none"]

(***************************************************************************)
(* JSON values                                                             *)
(***************************************************************************)
JV(t, s, c) == [t |-> t, s |-> s, c |-> c]
JNull == JV("null", <<>>, <<>>)
JTrue == JV("bool", <<"true">>, <<>>)
JStr(s) == JV("str", s, <<>>)
JNum(s) == JV("num", s, <<>>)
Entry(k, v) == [k |-> k, v |-> v]
JList(items) == JV("list", <<>>, [i \in 1..Len(items) |-> Entry(<<>>, items[i])])
JDict(entries) == JV("dict", <<>>, entries)

\* dict[k] = v : an existing key keeps its position, a new key goes last
DictSet(entries, k, v) ==
    IF \E i \in 1..Len(entries) : entries[i].k = k
    THEN [i \in 1..Len(entries) |->
             IF entries[i].k = k THEN Entry(k, v) ELSE entries[i]]
    ELSE Append(entries, Entry(k, v))

HasKey(d, k) == d.t = "dict" /\ \E i \in 1..Len(d.c) : d.c[i].k = k

\* d[k] for a dict d that has the key k
Lookup(d, k) == d.c[CHOOSE i \in 1..Len(d.c) : d.c[i].k = k].v

\* dict.get(k, default)
DictGet(d, k, default) == IF HasKey(d, k) THEN Lookup(d, k) ELSE default

\* x is a contiguous piece of s (Python's `x in s` on two strings)
IsSubstr(x, s) ==
    \E i \in 0..Len(s) :
        /\ i + Len(x) <= Len(s)
        /\ \A j \in 1..Len(x) : s[i + j] = x[j]

\* s.startswith(p)
StartsWith(s, p) ==
    /\ Len(p) <= Len(s)
    /\ \A j \in 1..Len(p) : s[j] = p[j]

\* Python truthiness of a decoded JSON value
Truthy(v) ==
    CASE v.t = "null" -> FALSE
      [] v.t = "bool" -> v.s = <<"true">>
      [] v.t = "num"  -> v.s # <<"0">>
      [] v.t = "str"  -> v.s # <<>>
      [] OTHER        -> v.c # <<>>

\* `key in obj` for a str key: "true", "false" or "raise" (TypeError)
PyIn(key, obj) ==
    CASE obj.t = "dict" ->
            IF \E i \in 1..Len(obj.c) : obj.c[i].k = key THEN "true" ELSE "false"
      [] obj.t = "list" ->
            IF \E i \in 1..Len(obj.c) : obj.c[i].v = JStr(key) THEN "true" ELSE "false"
      [] obj.t = "str" ->
            IF IsSubstr(key, obj.s) THEN "true" ELSE "false"
      [] OTHER -> "raise"

(***************************************************************************)
(* json.dumps / json.loads on a text made of tokens                        *)
(***************************************************************************)
Tok(k, s) == [k |-> k, s |-> s]

RECURSIVE JsonDumps(_), DumpEntries(_, _)
JsonDumps(v) ==
    CASE v.t = "dict" -> <<Tok("{", <<>>)>> \o DumpEntries(v.c, TRUE) \o <<Tok("}", <<>>)>>
      [] v.t = "list" -> <<Tok("[", <<>>)>> \o DumpEntries(v.c, FALSE) \o <<Tok("]", <<>>)>>
      [] OTHER        -> <<Tok(v.t, v.s)>>
DumpEntries(c, isDict) ==
    IF c = <<>> THEN <<>>
    ELSE (IF isDict THEN <<Tok("key", c[1].k)>> ELSE <<>>)
         \o JsonDumps(c[1].v) \o DumpEntries(Tail(c), isDict)

DecodeOk(v, n) == [ok |-> TRUE, v |-> v, n |-> n]
DecodeFail(n) == [ok |-> FALSE, v |-> JNull, n |-> n]

RECURSIVE ParseValue(_, _), ParseMembers(_, _, _), ParseElements(_, _, _)
ParseValue(toks, i) ==
    IF i > Len(toks) THEN DecodeFail(i)
    ELSE CASE toks[i].k = "{" -> ParseMembers(toks, i + 1, <<>>)
           [] toks[i].k = "[" -> ParseElements(toks, i + 1, <<>>)
           [] toks[i].k \in {"str", "num", "bool", "null"} ->
                  DecodeOk(JV(toks[i].k, toks[i].s, <<>>), i + 1)
           [] OTHER -> DecodeFail(i)
ParseMembers(toks, i, acc) ==
    IF i > Len(toks) THEN DecodeFail(i)
    ELSE IF toks[i].k = "}" THEN DecodeOk(JDict(acc), i + 1)
    ELSE IF toks[i].k = "key"
         THEN LET r == ParseValue(toks, i + 1)
              IN  IF r.ok THEN ParseMembers(toks, r.n, DictSet(acc, toks[i].s, r.v))
                  ELSE r
    ELSE DecodeFail(i)
ParseElements(toks, i, acc) ==
    IF i > Len(toks) THEN DecodeFail(i)
    ELSE IF toks[i].k = "]" THEN DecodeOk(JList(acc), i + 1)
    ELSE LET r == ParseValue(toks, i)
         IN  IF r.ok THEN ParseElements(toks, r.n, Append(acc, r.v)) ELSE r

\* json.loads: the whole text must be one value; n is the error position
JsonLoads(toks) ==
    LET r == ParseValue(toks, 1)
    IN  IF r.ok /\ r.n <= Len(toks) THEN DecodeFail(r.n) ELSE r

(***************************************************************************)
(* models.py: ValidationError entries and ValidationResult                 *)
(***************************************************************************)
\* ValidationError.__str__ (line_number is never set by the parser)
ErrorStr(e) ==
    <<e.error_code, ": ">> \o e.message
        \o (IF e.path # <<>> THEN <<" at ">> \o e.path ELSE <<>>)

\* ValidationResult(is_valid=v)
NewResult(v) == [is_valid |-> v, errors |-> <<>>, warnings |-> <<>>,
                 schema_version |-> JNull]

AddErrorNoFlag(res, message, path, code) ==
    [res EXCEPT !.errors = Append(@, [message |-> message, path |-> path,
                                        error_code |-> code])]

\* ValidationResult.add_error
AddError(res, message, path, code) ==
    [res EXCEPT !.errors = Append(@, [message |-> message, path |-> path,
                                        error_code |-> code]),
                !.is_valid = FALSE]

\* ValidationResult.add_warning
AddWarning(res, message, path, code) ==
    [res EXCEPT !.warnings = Append(@, [message |-> message, path |-> path,
                                          error_code |-> code])]

\* ValidationResult.error_count / warning_count
ErrorCount(res) == Len(res.errors)
WarningCount(res) == Len(res.warnings)

(***************************************************************************)
(* parser.py: validate / _validate_basic_structure                         *)
(* An outcome is [raised, result]: raised is "" when the call returned.    *)
(***************************************************************************)
K_metadata == <<"metadata">>
K_project_name == <<"project_name">>
K_github_username == <<"github_username">>
K_created_date == <<"created_date">>
K_version == <<"version">>
K_schema_version == <<"schema_version">>
K_structure == <<"structure">>
K_description == <<"description">>
K_updated_date == <<"updated_date">>
K_template_path == <<"template_path">>
K_tags == <<"tags">>
EmptyStr == JStr(<<>>)

Returned(res) == [raised |-> "", result |-> res]
Raised(type, res) == [raised |-> type, result |-> res]

\* for field in fields: if field not in obj: result.add_error(...)
RECURSIVE RequiredLoop(_, _, _, _, _)
RequiredLoop(fields, obj, o, msgHead, pathHead) ==
    IF fields = <<>> \/ o.raised # "" THEN o
    ELSE LET isIn == PyIn(fields[1], obj)
         IN  IF isIn = "raise" THEN Raised("TypeError", o.result)
             ELSE RequiredLoop(Tail(fields), obj,
                      IF isIn = "false"
                      THEN Returned(AddError(o.result,
                               <<msgHead>> \o fields[1] \o <<"' is missing">>,
                               pathHead \o fields[1], "MISSING_FIELD"))
                      ELSE o,
                      msgHead, pathHead)

\* if field in obj and not isinstance(obj[field], str): result.add_error(...)
StrTypeCheck(field, obj, o, pathHead) ==
    IF o.raised # "" THEN o
    ELSE LET isIn == PyIn(field, obj)
         IN  IF isIn = "raise" THEN Raised("TypeError", o.result)
             ELSE IF isIn = "false" THEN o
             ELSE IF obj.t # "dict" THEN Raised("TypeError", o.result)
             ELSE IF Lookup(obj, field).t # "str"
                  THEN Returned(AddError(o.result,
                           field \o <<" must be a string">>,
                           pathHead \o field, "INVALID_TYPE"))
                  ELSE o

\* the three isinstance checks of either branch
TypeChecks(obj, o, pathHead) ==
    StrTypeCheck(K_version, obj,
        StrTypeCheck(K_github_username, obj,
            StrTypeCheck(K_project_name, obj, o, pathHead), pathHead), pathHead)

\* the `if 'metadata' in data:` branch; data['metadata'] needs a dict
ValidateV2(data, o) ==
    IF data.t # "dict" THEN Raised("TypeError", o.result)
    ELSE LET metadata == Lookup(data, K_metadata)
         IN  TypeChecks(metadata,
                 RequiredLoop(<<K_project_name, K_github_username, K_version,
                                K_schema_version>>,
                              metadata, o, "Required metadata field '", <<"metadata.">>),
                 <<"metadata.">>)

\* the else branch
ValidateV1(data, o) ==
    TypeChecks(data,
        RequiredLoop(<<K_project_name, K_github_username, K_version, K_structure>>,
                     data, o, "Required field '", <<>>),
        <<>>)

\* if 'structure' not in data ... elif not isinstance(data['structure'], dict)
StructureFieldCheck(data, o) ==
    IF o.raised # "" THEN o
    ELSE LET isIn == PyIn(K_structure, data)
         IN  IF isIn = "raise" THEN Raised("TypeError", o.result)
             ELSE IF isIn = "false"
                  THEN Returned(AddError(o.result,
                           <<"Required field 'structure' is missing">>,
                           K_structure, "MISSING_FIELD"))
             ELSE IF data.t # "dict" THEN Raised("TypeError", o.result)
             ELSE IF Lookup(data, K_structure).t # "dict"
                  THEN Returned(AddError(o.result,
                           <<"structure must be an object">>,
                           K_structure, "INVALID_TYPE"))
                  ELSE o

\* structure = data.get('structure', {}); if not structure: add_error
EmptyStructureCheck(data, o) ==
    IF o.raised # "" THEN o
    ELSE IF data.t # "dict" THEN Raised("AttributeError", o.result)
    ELSE IF ~Truthy(DictGet(data, K_structure, JDict(<<>>)))
         THEN Returned(AddError(o.result, <<"Structure cannot be empty">>,
                                K_structure, "EMPTY_STRUCTURE"))
         ELSE o

ValidateBasicStructure(data) ==
    LET o0 == Returned(NewResult(TRUE))
        hasMeta == PyIn(K_metadata, data)
    IN  IF hasMeta = "raise" THEN Raised("TypeError", o0.result)
        ELSE EmptyStructureCheck(data,
                 StructureFieldCheck(data,
                     IF hasMeta = "true" THEN ValidateV2(data, o0)
                                         ELSE ValidateV1(data, o0)))

(***************************************************************************)
(* validators.py: SchemaValidator on a schema {"required": [...]}          *)
(***************************************************************************)
SchemaValidator(required) == [kind |-> "schema", required |-> required]

LowerDigit == {"p", "u", "x", "d", "0", "1", "2", "3"}
Alnum == LowerDigit \cup {"P", "U"}
Digits == {"0", "1", "2", "3"}

\* re.match(r'^[a-z0-9]+(-[a-z0-9]+)*$', name)
IsValidProjectName(name) ==
    /\ name # <<>>
    /\ \A i \in 1..Len(name) : name[i] \in LowerDigit \cup {"-"}
    /\ name[1] # "-" /\ name[Len(name)] # "-"
    /\ \A i \in 1..(Len(name) - 1) : ~(name[i] = "-" /\ name[i + 1] = "-")

\* re.match(r'^[a-zA-Z0-9]([a-zA-Z0-9-]*[a-zA-Z0-9])?$', username)
IsValidGithubUsername(username) ==
    /\ username # <<>>
    /\ \A i \in 1..Len(username) : username[i] \in Alnum \cup {"-"}
    /\ username[1] # "-" /\ username[Len(username)] # "-"

\* (0|[1-9]\d*)
NumericId(part) ==
    /\ part # <<>>
    /\ \A i \in 1..Len(part) : part[i] \in Digits
    /\ Len(part) > 1 => part[1] # "0"

\* re.match(semver_pattern, version), on versions without a pre-release or
\* build tag: three numeric identifiers between two dots
IsValidVersion(version) ==
    \E i, j \in 1..Len(version) :
        /\ i < j /\ version[i] = "." /\ version[j] = "."
        /\ NumericId(SubSeq(version, 1, i - 1))
        /\ NumericId(SubSeq(version, i + 1, j - 1))
        /\ NumericId(SubSeq(version, j + 1, Len(version)))

K_meta_repo == <<"meta-repo">>
K_governance == <<"governance">>

\* path = "metadata.<field>" if 'metadata' in data else "<field>"
FieldPath(data, field) ==
    IF HasKey(data, K_metadata) THEN <<"metadata.">> \o field ELSE field

\* self.validator.iter_errors(data) as add_error calls: the `required`
\* keyword yields one error for each listed property the object lacks
RECURSIVE SchemaErrors(_, _, _)
SchemaErrors(required, data, res) ==
    IF required = <<>> THEN res
    ELSE SchemaErrors(Tail(required), data,
             IF HasKey(data, required[1]) THEN res
             ELSE AddError(res, <<"'">> \o required[1] \o <<"' is a required property">>,
                           <<"root">>, "SCHEMA_VALIDATION_ERROR"))

\* _validate_custom_rules: project name
ProjectNameRule(data, metadata, o) ==
    IF o.raised # "" THEN o
    ELSE IF metadata.t # "dict" THEN Raised("AttributeError", o.result)
    ELSE LET project_name == DictGet(metadata, K_project_name, EmptyStr)
         IN  IF ~Truthy(project_name)
             THEN Returned(AddError(o.result, <<"Project name is required">>,
                                    FieldPath(data, K_project_name), "MISSING_FIELD"))
             ELSE IF project_name.t # "str" THEN Raised("TypeError", o.result)
             ELSE IF ~IsValidProjectName(project_name.s)
                  THEN Returned(AddError(o.result,
                           <<"Project name should be lowercase with hyphens (kebab-case)">>,
                           FieldPath(data, K_project_name), "INVALID_FORMAT"))
                  ELSE o

\* _validate_custom_rules: GitHub username
GithubUsernameRule(data, metadata, o) ==
    IF o.raised # "" THEN o
    ELSE LET github_username == DictGet(metadata, K_github_username, EmptyStr)
         IN  IF ~Truthy(github_username)
             THEN Returned(AddError(o.result, <<"GitHub username is required">>,
                                    FieldPath(data, K_github_username), "MISSING_FIELD"))
             ELSE IF github_username.t # "str" THEN Raised("TypeError", o.result)
             ELSE IF ~IsValidGithubUsername(github_username.s)
                  THEN Returned(AddWarning(o.result,
                           <<"GitHub username format may be invalid">>,
                           FieldPath(data, K_github_username), "SUSPICIOUS_FORMAT"))
                  ELSE o

\* for section in sections: if section not in obj: result.add_warning(...)
RECURSIVE RecommendedLoop(_, _, _, _, _, _)
RecommendedLoop(sections, obj, res, msgHead, msgTail, pathHead) ==
    IF sections = <<>> THEN res
    ELSE RecommendedLoop(Tail(sections), obj,
             IF HasKey(obj, sections[1]) THEN res
             ELSE AddWarning(res, <<msgHead>> \o sections[1] \o <<msgTail>>,
                             <<pathHead>> \o sections[1], "MISSING_RECOMMENDED_SECTION"),
             msgHead, msgTail, pathHead)

\* _validate_meta_repo_structure, for a dict meta_repo
ValidateMetaRepoStructure(meta_repo, res) ==
    LET r1 == RecommendedLoop(<<K_governance, <<"automation">>, <<"documentation">>>>,
                  meta_repo, res, "Recommended section '",
                  "' is missing from meta-repo", "structure.meta-repo.")
    IN  IF HasKey(meta_repo, K_governance) /\ Lookup(meta_repo, K_governance).t = "dict"
        THEN RecommendedLoop(<<K_structure, <<"policies">>, <<"processes">>>>,
                 Lookup(meta_repo, K_governance), r1,
                 "Recommended governance section '", "' is missing",
                 "structure.meta-repo.governance.")
        ELSE r1

\* _validate_structure_completeness, for a truthy structure
ValidateStructureCompleteness(structure, o) ==
    LET has == PyIn(K_meta_repo, structure)
    IN  IF has = "raise" THEN Raised("TypeError", o.result)
        ELSE IF has = "false"
             THEN Returned(AddError(o.result,
                      <<"Required section 'meta-repo' is missing from structure">>,
                      <<"structure.meta-repo">>, "MISSING_REQUIRED_SECTION"))
        ELSE IF structure.t # "dict" THEN Raised("TypeError", o.result)
        ELSE IF Lookup(structure, K_meta_repo).t # "dict"
             THEN Returned(AddError(o.result, <<"meta-repo section must be an object">>,
                                    <<"structure.meta-repo">>, "INVALID_TYPE"))
             ELSE Returned(ValidateMetaRepoStructure(Lookup(structure, K_meta_repo),
                                                     o.result))

\* _validate_custom_rules: structure completeness
StructureRule(data, o) ==
    IF o.raised # "" THEN o
    ELSE LET structure == DictGet(data, K_structure, JDict(<<>>))
         IN  IF ~Truthy(structure)
             THEN Returned(AddError(o.result, <<"Structure definition is required">>,
                                    K_structure, "MISSING_FIELD"))
             ELSE ValidateStructureCompleteness(structure, o)

\* _validate_custom_rules: version format
VersionRule(data, metadata, o) ==
    IF o.raised # "" THEN o
    ELSE LET version == DictGet(metadata, K_version, EmptyStr)
         IN  IF ~Truthy(version) THEN o
             ELSE IF version.t # "str" THEN Raised("TypeError", o.result)
             ELSE IF ~IsValidVersion(version.s)
                  THEN Returned(AddWarning(o.result,
                           <<"Version should follow semantic versioning (e.g., 1.0.0)">>,
                           FieldPath(data, K_version), "INVALID_VERSION_FORMAT"))
                  ELSE o

\* SchemaValidator._validate_custom_rules, for a dict data
ValidateCustomRules(data, o) ==
    LET metadata == DictGet(data, K_metadata, data)
    IN  VersionRule(data, metadata,
            StructureRule(data,
                GithubUsernameRule(data, metadata,
                    ProjectNameRule(data, metadata, o))))

\* SchemaValidator.validate: data.get is outside the try block; what the
\* try block raises becomes a SCHEMA_ERROR entry
\* except Exception as e: result.add_error(f"Schema validation failed: {e}")
SchemaValidateExcept(o) ==
    IF o.raised # ""
    THEN Returned(AddError(o.result, <<"Schema validation failed: ", o.raised>>,
                           <<>>, "SCHEMA_ERROR"))
    ELSE o

SchemaValidate(self, data) ==
    IF data.t # "dict" THEN Raised("AttributeError", NewResult(TRUE))
    ELSE SchemaValidateExcept(
             ValidateCustomRules(data,
                 Returned(SchemaErrors(self.required, data,
                     [NewResult(TRUE) EXCEPT
                         !.schema_version =
                             DictGet(data, K_version, JStr(<<"unknown">>))]))))

\* except Exception as e: result = ValidationResult(is_valid=False);
\* result.add_error(f"Schema validation error: {e}")
ValidateExcept(o) ==
    IF o.raised # ""
    THEN Returned(AddError(NewResult(FALSE), <<"Schema validation error: ", o.raised>>,
                           <<>>, "SCHEMA_ERROR"))
    ELSE o

\* StructureParser.validate: the schema branch is `if False and self.validator`
Validate(data) ==
    IF FALSE /\ validator # None
    THEN ValidateExcept(SchemaValidate(validator, data))
    ELSE ValidateBasicStructure(data)


(***************************************************************************)
(* models.py: StructureData.from_dict                                      *)
(***************************************************************************)
V_1_0 == <<"1", ".", "0">>
V_2_0 == <<"2", ".", "0">>
V_2_0_0 == <<"2", ".", "0", ".", "0">>
V_3_0_0 == <<"3", ".", "0", ".", "0">>

\* StructureData.from_dict for a dict `data`; None is JNull
FromDict(data) ==
    IF HasKey(data, K_metadata)
    THEN LET metadata == Lookup(data, K_metadata)
         IN  [project_name    |-> DictGet(metadata, K_project_name, EmptyStr),
              github_username |-> DictGet(metadata, K_github_username, EmptyStr),
              created_date    |-> DictGet(metadata, K_created_date, EmptyStr),
              version         |-> DictGet(metadata, K_version, EmptyStr),
              schema_version  |-> DictGet(metadata, K_schema_version, JStr(V_2_0_0)),
              structure       |-> DictGet(data, K_structure, JDict(<<>>)),
              description     |-> DictGet(metadata, K_description, JNull),
              updated_date    |-> DictGet(metadata, K_updated_date, JNull),
              template_path   |-> DictGet(metadata, K_template_path, JNull),
              tags            |-> DictGet(metadata, K_tags, JList(<<>>))]
    ELSE     [project_name    |-> DictGet(data, K_project_name, EmptyStr),
              github_username |-> DictGet(data, K_github_username, EmptyStr),
              created_date    |-> DictGet(data, K_created_date, EmptyStr),
              version         |-> DictGet(data, K_version, EmptyStr),
              schema_version  |-> JStr(V_1_0),
              structure       |-> DictGet(data, K_structure, JDict(<<>>)),
              description     |-> DictGet(data, K_description, JNull),
              updated_date    |-> DictGet(data, K_updated_date, JNull),
              template_path   |-> DictGet(data, K_template_path, JNull),
              tags            |-> DictGet(data, K_tags, JList(<<>>))]

(***************************************************************************)
(* exceptions.py and the raising entry points of parser.py                 *)
(* A call outcome is [kind |-> "ok", data], [kind |-> "raise", exc] or     *)
(* None (not called yet).  line_number / column 0 stand for None.          *)
(***************************************************************************)
Exc(type, message, errors, line, col) ==
    [type |-> type, message |-> message, errors |-> errors,
     line_number |-> line, column |-> col]
Ok(data) == [kind |-> "ok", data |-> data]
Raise(exc) == [kind |-> "raise", exc |-> exc]

RECURSIVE ErrorDetails(_)
ErrorDetails(errors) ==
    IF errors = <<>> THEN <<>>
    ELSE <<"  - ">> \o errors[1] \o ErrorDetails(Tail(errors))

\* str(e): ParseError.__str__, ValidationError.__str__, Exception.__str__
ExcStr(e) ==
    CASE e.type = "ParseError" ->
            IF e.line_number # 0 /\ e.column # 0
            THEN <<"Line ", ToString(e.line_number), ", Column ",
                   ToString(e.column), ": ">> \o e.message
            ELSE IF e.line_number # 0
                 THEN <<"Line ", ToString(e.line_number), ": ">> \o e.message
                 ELSE e.message
      [] e.type = "ValidationError" ->
            IF e.errors # <<>>
            THEN e.message \o <<"Validation errors:">> \o ErrorDetails(e.errors)
            ELSE e.message
      [] OTHER -> e.message

\* the text is on one line: the decoder's position is its column
\* StructureParser.parse_string
ParseString(json_content) ==
    LET d == JsonLoads(json_content)
    IN  IF ~d.ok
        THEN Raise(Exc("ParseError", <<"Invalid JSON: ", "decode error">>, <<>>, 1, d.n))
        ELSE LET v == Validate(d.v)
             IN  IF v.raised # ""
                 THEN Raise(Exc(v.raised, <<"python error">>, <<>>, 0, 0))
                 ELSE IF ~v.result.is_valid
                 THEN Raise(Exc("ValidationError", <<"Structure validation failed">>,
                                [i \in 1..Len(v.result.errors) |->
                                     ErrorStr(v.result.errors[i])], 0, 0))
                 ELSE Ok(FromDict(d.v))

\* StructureParser.parse_file: parse_string runs inside the try block, so
\* what it raises meets the handlers `except json.JSONDecodeError` and then
\* `except Exception`
ParseFile(exists, file_content) ==
    IF ~exists
    THEN Raise(Exc("FileNotFoundError", <<"Structure file not found">>, <<>>, 0, 0))
    ELSE LET r == ParseString(file_content)
         IN  IF r.kind = "ok" THEN r
             ELSE IF r.exc.type = "JSONDecodeError"
                  THEN Raise(Exc("ParseError", <<"Invalid JSON in file: ">> \o r.exc.message,
                                 <<>>, r.exc.line_number, r.exc.column))
                  ELSE Raise(Exc("StructureParserError",
                                 <<"Error reading file: ">> \o ExcStr(r.exc), <<>>, 0, 0))

(***************************************************************************)
(* parser.py: export_structure                                             *)
(***************************************************************************)
OptionalEntry(k, v) == IF Truthy(v) THEN <<Entry(k, v)>> ELSE <<>>

ExportDataNoVersion(data) ==
    JDict(<<Entry(K_project_name, data.project_name),
            Entry(K_github_username, data.github_username),
            Entry(K_created_date, data.created_date),
            Entry(K_structure, data.structure)>>
          \o OptionalEntry(K_version, data.version)
          \o OptionalEntry(K_description, data.description)
          \o OptionalEntry(K_tags, data.tags)
          \o OptionalEntry(K_template_path, data.template_path))

\* the export_data dict of export_structure
ExportData(data) ==
    JDict(<<Entry(K_project_name, data.project_name),
            Entry(K_github_username, data.github_username),
            Entry(K_created_date, data.created_date),
            Entry(K_version, data.version),
            Entry(K_structure, data.structure)>>
          \o OptionalEntry(K_description, data.description)
          \o OptionalEntry(K_tags, data.tags)
          \o OptionalEntry(K_template_path, data.template_path))

(***************************************************************************)
(* parser.py: _migrate_structure / _migrate_v1_to_v2 (values)              *)
(***************************************************************************)
\* x.copy() exists for list and dict only
HasCopy(v) == v.t \in {"list", "dict"}

MigrateV1ToV2KeepVersion(data) ==
    IF ~HasCopy(data.tags) \/ ~HasCopy(data.structure)
    THEN Raise(Exc("AttributeError", <<"object has no attribute 'copy'">>, <<>>, 0, 0))
    ELSE Ok(FromDict(JDict(<<
             Entry(K_metadata, JDict(<<
                 Entry(K_project_name, data.project_name),
                 Entry(K_github_username, data.github_username),
                 Entry(K_created_date, data.created_date),
                 Entry(K_version, data.version),
                 Entry(K_schema_version, JStr(V_2_0_0)),
                 Entry(K_description, data.description),
                 Entry(K_tags, data.tags)>>)),
             Entry(K_structure, data.structure)>>)))

\* StructureParser._migrate_v1_to_v2
MigrateV1ToV2(data) ==
    IF ~HasCopy(data.tags) \/ ~HasCopy(data.structure)
    THEN Raise(Exc("AttributeError", <<"object has no attribute 'copy'">>, <<>>, 0, 0))
    ELSE Ok(FromDict(JDict(<<
             Entry(K_metadata, JDict(<<
                 Entry(K_project_name, data.project_name),
                 Entry(K_github_username, data.github_username),
                 Entry(K_created_date, data.created_date),
                 Entry(K_version, JStr(V_2_0_0)),
                 Entry(K_schema_version, JStr(V_2_0_0)),
                 Entry(K_description, data.description),
                 Entry(K_tags, data.tags)>>)),
             Entry(K_structure, data.structure)>>)))

MigrateStructureNoOp(data, target_version) ==
    IF StartsWith(data.version.s, <<"1", ".">>) /\ target_version = V_2_0
    THEN MigrateV1ToV2(data)
    ELSE IF StartsWith(data.version.s, target_version)
    THEN Ok(data)
    ELSE Raise(Exc("MigrationError",
                   <<"Migration from version ">> \o data.version.s \o <<" to ">>
                       \o target_version \o <<" is not supported">>, <<>>, 0, 0))

\* StructureParser._migrate_structure
MigrateStructure(data, target_version) ==
    IF StartsWith(data.version.s, <<"1", ".">>) /\ target_version = V_2_0
    THEN MigrateV1ToV2(data)
    ELSE Raise(Exc("MigrationError",
                   <<"Migration from version ">> \o data.version.s \o <<" to ">>
                       \o target_version \o <<" is not supported">>, <<>>, 0, 0))

\* load_structure_with_migration after parse_file: what parse_file raises
\* goes through; data.version is compared with the target
LoadParsed(parsed, target_version) ==
    IF parsed.kind = "raise" THEN parsed
    ELSE IF parsed.data.version # JStr(target_version)
         THEN MigrateStructure(parsed.data, target_version)
         ELSE parsed

\* StructureParser.load_structure_with_migration
LoadStructureWithMigration(exists, file_content, target_version) ==
    LoadParsed(ParseFile(exists, file_content), target_version)

(***************************************************************************)
(* The documents and texts of the parser session                           *)
(***************************************************************************)
Absent == JV("absent", <<>>, <<>>)

RECURSIVE DropAbsent(_)
DropAbsent(entries) ==
    IF entries = <<>> THEN <<>>
    ELSE (IF entries[1].v = Absent THEN <<>> ELSE <<entries[1]>>)
         \o DropAbsent(Tail(entries))

FileList(names) == JList([i \in 1..Len(names) |-> JStr(names[i])])

TreeFlat == JDict(<<Entry(<<"a">>, FileList(<<<<"f">>>>))>>)
TreeDeep == JDict(<<Entry(<<"a">>, JDict(<<Entry(<<"b">>, FileList(<<<<"f">>, <<"g">>>>))>>)),
                    Entry(<<"c">>, FileList(<<>>))>>)

\* structures whose values are neither a mapping nor a list of strings
TreeScalar == JDict(<<Entry(<<"a">>, JNum(<<"3">>))>>)
TreeMixedList == JDict(<<Entry(<<"a">>, JList(<<JStr(<<"f">>), JNull>>))>>)
\* a structure with the sections the schema validator looks for
TreeMeta ==
    JDict(<<Entry(K_meta_repo,
                  JDict(<<Entry(K_governance,
                                JDict(<<Entry(K_structure, FileList(<<<<"f">>>>))>>))>>))>>)

ProjectNameOpts == {Absent, EmptyStr, JStr(<<"p">>), JNum(<<"1">>)}
UsernameOpts == {Absent, JStr(<<"u">>)}
VersionOpts == {Absent, EmptyStr, JStr(V_1_0), JStr(V_2_0), JStr(V_3_0_0), JStr(<<"1">>)}
StructureOpts ==
    {Absent, JDict(<<>>), TreeFlat, TreeDeep, JStr(<<"x">>), TreeScalar, TreeMixedList,
     TreeMeta}
DescriptionOpts == {Absent, JStr(<<"d">>)}
TagsOpts == {Absent, JNull, FileList(<<<<"t">>>>)}
SchemaVersionOpts == {Absent, JStr(V_2_0_0)}

V1Docs ==
    { JDict(DropAbsent(<<Entry(K_project_name, pn), Entry(K_github_username, gh),
                         Entry(K_version, ver), Entry(K_structure, st),
                         Entry(K_description, de), Entry(K_tags, tg)>>)) :
        pn \in ProjectNameOpts, gh \in UsernameOpts, ver \in VersionOpts,
        st \in StructureOpts, de \in DescriptionOpts, tg \in TagsOpts }

V2Docs ==
    { JDict(DropAbsent(<<
          Entry(K_metadata, JDict(DropAbsent(<<
              Entry(K_project_name, pn), Entry(K_github_username, gh),
              Entry(K_version, ver), Entry(K_schema_version, sv),
              Entry(K_description, de), Entry(K_tags, tg)>>))),
          Entry(K_structure, st)>>)) :
        pn \in ProjectNameOpts, gh \in UsernameOpts, ver \in VersionOpts,
        sv \in SchemaVersionOpts, st \in StructureOpts,
        de \in DescriptionOpts, tg \in TagsOpts }

RequiredNames == <<K_project_name, K_github_username, K_version, K_schema_version>>

\* decodable values that are not an object, or whose metadata is not one
OddDocs ==
    {JNull, JTrue, JNum(<<"3">>), JStr(<<"x">>), JStr(K_metadata), JList(<<>>),
     FileList(<<K_project_name>>), FileList(<<K_structure>>)}
    \cup { JDict(<<Entry(K_metadata, m), Entry(K_structure, TreeFlat)>>) :
             m \in {JNull, JNum(<<"3">>), JStr(<<"x">>), JStr(K_version),
                    JList(<<>>), FileList(RequiredNames)} }

Docs == V1Docs \cup V2Docs \cup OddDocs

\* texts that are not one JSON value
Malformed ==
    {<<>>, <<Tok("{", <<>>)>>, <<Tok("key", <<"a">>)>>,
     <<Tok("[", <<>>), Tok("null", <<>>)>>,
     <<Tok("null", <<>>), Tok("null", <<>>)>>,
     SubSeq(JsonDumps(TreeDeep), 1, Len(JsonDumps(TreeDeep)) - 1)}

Texts == {JsonDumps(d) : d \in Docs} \cup Malformed

Targets == {V_2_0, V_2_0_0, V_1_0}

\* self.validator after __init__: None when the schema could not be loaded,
\* else a SchemaValidator on the schema {} or {"required": ["structure"]}
Validators == {None, SchemaValidator(<<>>), SchemaValidator(<<K_structure>>)}

(***************************************************************************)
(* The parser session: one text, each entry point called on it in turn     *)
(***************************************************************************)
sessionVars == <<validator, content, vr, ps, pf, exported, rt, mig, mig2>>
resultVars == <<result, errCalls, warnCalls>>
copyVars == <<heap, source, migrated, touched, sourceBefore, migratedAfter>>
treeVars == <<tree, allDirs, allFiles, probe, dirFiles>>
snapVars == <<clock, dirA, dirB, snapA, snapB, made, rebuilt, diffAB, diffBA>>
storeVars == <<store, saved, saves, listing, loaded>>
syncVars == <<fs, config, time, syncs, lastSync>>
repoVars == <<repo, dryRun, structureFile, inits, lastInit>>
vars == <<sessionVars, resultVars, copyVars, treeVars, snapVars, storeVars, syncVars,
          repoVars>>
nonSessionVars ==
    <<resultVars, copyVars, treeVars, snapVars, storeVars, syncVars, repoVars>>
nonResultVars ==
    <<sessionVars, copyVars, treeVars, snapVars, storeVars, syncVars, repoVars>>
nonCopyVars ==
    <<sessionVars, resultVars, treeVars, snapVars, storeVars, syncVars, repoVars>>
nonTreeVars ==
    <<sessionVars, resultVars, copyVars, snapVars, storeVars, syncVars, repoVars>>
nonSnapVars ==
    <<sessionVars, resultVars, copyVars, treeVars, storeVars, syncVars, repoVars>>
nonStoreVars ==
    <<sessionVars, resultVars, copyVars, treeVars, snapVars, syncVars, repoVars>>
nonSyncVars ==
    <<sessionVars, resultVars, copyVars, treeVars, snapVars, storeVars, repoVars>>
nonRepoVars ==
    <<sessionVars, resultVars, copyVars, treeVars, snapVars, storeVars, syncVars>>

SessionIdle ==
    /\ validator = None /\ content = <<>>
    /\ vr = None /\ ps = None /\ pf = None /\ exported = None
    /\ rt = None /\ mig = None /\ mig2 = None

ResultIdle == result = None /\ errCalls = 0 /\ warnCalls = 0

CopyIdle ==
    /\ heap = <<>> /\ source = None /\ migrated = None /\ touched = <<>>
    /\ sourceBefore = None /\ migratedAfter = None

TreeIdle ==
    /\ tree = None /\ allDirs = None /\ allFiles = None /\ probe = None
    /\ dirFiles = None

SnapIdle ==
    /\ clock = 0 /\ dirA = None /\ dirB = None /\ snapA = None /\ snapB = None
    /\ made = None /\ rebuilt = None /\ diffAB = None /\ diffBA = None

StoreIdle ==
    /\ store = None /\ saved = None /\ saves = 0 /\ listing = None /\ loaded = None

SyncIdle ==
    /\ fs = None /\ config = None /\ time = 0 /\ syncs = 0 /\ lastSync = None

RepoIdle ==
    /\ repo = None /\ dryRun = FALSE /\ structureFile = <<>> /\ inits = 0
    /\ lastInit = None

Called(target, out) == [kind |-> "called", target |-> target, out |-> out]

Init ==
    /\ validator \in Validators
    /\ content \in Texts
    /\ vr = None /\ ps = None /\ pf = None /\ exported = None
    /\ rt = None /\ mig = None /\ mig2 = None
    /\ ResultIdle /\ CopyIdle /\ TreeIdle /\ SnapIdle /\ StoreIdle /\ SyncIdle
    /\ RepoIdle

\* parser.validate(json.loads(content))
DoValidate ==
    /\ vr = None
    /\ JsonLoads(content).ok
    /\ vr' = [kind |-> "done", out |-> Validate(JsonLoads(content).v)]
    /\ UNCHANGED <<validator, content, ps, pf, exported, rt, mig, mig2, nonSessionVars>>

\* parser.parse_string(content)
DoParseString ==
    /\ ps = None
    /\ vr # None \/ ~JsonLoads(content).ok
    /\ ps' = ParseString(content)
    /\ UNCHANGED <<validator, content, vr, pf, exported, rt, mig, mig2, nonSessionVars>>

\* parser.parse_file(path) where the file, if it exists, holds content
DoParseFile ==
    /\ ps # None /\ pf = None
    /\ \E exists \in BOOLEAN : pf' = ParseFile(exists, content)
    /\ UNCHANGED <<validator, content, vr, ps, exported, rt, mig, mig2, nonSessionVars>>

\* parser.export_structure(data, output_path): json.dump of export_data
DoExportStructure ==
    /\ ps.kind = "ok" /\ pf # None /\ exported = None
    /\ exported' = [kind |-> "text", text |-> JsonDumps(ExportData(ps.data))]
    /\ UNCHANGED <<validator, content, vr, ps, pf, rt, mig, mig2, nonSessionVars>>

\* parser.parse_file(output_path)
DoParseExported ==
    /\ exported # None /\ rt = None
    /\ rt' = ParseFile(TRUE, exported.text)
    /\ UNCHANGED <<validator, content, vr, ps, pf, exported, mig, mig2, nonSessionVars>>

\* parser._migrate_structure(data, target)
DoMigrate ==
    /\ rt # None /\ mig = None
    /\ \E target \in Targets : mig' = Called(target, MigrateStructure(ps.data, target))
    /\ UNCHANGED <<validator, content, vr, ps, pf, exported, rt, mig2, nonSessionVars>>

\* parser._migrate_structure(migrated, target)
DoMigrateAgain ==
    /\ mig # None /\ mig2 = None
    /\ mig.out.kind = "ok"
    /\ \E target \in Targets :
           mig2' = Called(target, MigrateStructure(mig.out.data, target))
    /\ UNCHANGED <<validator, content, vr, ps, pf, exported, rt, mig, nonSessionVars>>

Next ==
    \/ DoValidate
    \/ DoParseString
    \/ DoParseFile
    \/ DoExportStructure
    \/ DoParseExported
    \/ DoMigrate
    \/ DoMigrateAgain

Spec == Init /\ [][Next]_vars

(***************************************************************************)
(* The load session: one file holding a v2 document, on which parse_file   *)
(* and load_structure_with_migration are called.                           *)
(***************************************************************************)
\* v2 documents with metadata.schema_version "2.0.0" and a project version
LoadDocs ==
    { JDict(<<Entry(K_metadata, JDict(DropAbsent(<<
                  Entry(K_project_name, JStr(<<"p">>)),
                  Entry(K_github_username, JStr(<<"u">>)),
                  Entry(K_created_date, JStr(<<"d">>)),
                  Entry(K_version, ver),
                  Entry(K_schema_version, JStr(V_2_0_0)),
                  Entry(K_updated_date, ud),
                  Entry(K_template_path, tp)>>))),
              Entry(K_structure, st)>>) :
        ver \in {JStr(V_1_0), JStr(V_2_0), JStr(V_2_0_0), JStr(V_3_0_0), JStr(<<"1">>)},
        ud \in {Absent, JStr(<<"d2">>)},
        tp \in {Absent, JStr(<<"t">>)},
        st \in {TreeFlat, TreeDeep} }

InitLoad ==
    /\ validator \in Validators
    /\ content \in {JsonDumps(doc) : doc \in LoadDocs}
    /\ vr = None /\ ps = None /\ pf = None /\ exported = None
    /\ rt = None /\ mig = None /\ mig2 = None
    /\ ResultIdle /\ CopyIdle /\ TreeIdle /\ SnapIdle /\ StoreIdle /\ SyncIdle
    /\ RepoIdle

\* parser.parse_file(path)
DoParseLoaded ==
    /\ pf = None
    /\ pf' = ParseFile(TRUE, content)
    /\ UNCHANGED <<validator, content, vr, ps, exported, rt, mig, mig2, nonSessionVars>>

\* parser.load_structure_with_migration(path, target)
DoLoadStructureWithMigration ==
    /\ mig = None
    /\ \E target \in Targets :
           mig' = Called(target, LoadStructureWithMigration(TRUE, content, target))
    /\ UNCHANGED <<validator, content, vr, ps, pf, exported, rt, mig2, nonSessionVars>>

NextLoad ==
    \/ DoParseLoaded
    \/ DoLoadStructureWithMigration

SpecLoad == InitLoad /\ [][NextLoad]_vars

(***************************************************************************)
(* The result session: one ValidationResult(is_valid=True) and calls of    *)
(* add_error / add_warning on it                                           *)
(***************************************************************************)
MaxCalls == 3
Messages == {<<"m1">>, <<"m2">>}
Paths == {<<>>, K_structure}

InitResult ==
    /\ result = NewResult(TRUE)
    /\ errCalls = 0 /\ warnCalls = 0
    /\ SessionIdle /\ CopyIdle /\ TreeIdle /\ SnapIdle /\ StoreIdle /\ SyncIdle
    /\ RepoIdle

\* result.add_error(message, path)
CallAddError ==
    /\ errCalls + warnCalls < MaxCalls
    /\ \E m \in Messages, p \in Paths :
           result' = AddError(result, m, p, "VALIDATION_ERROR")
    /\ errCalls' = errCalls + 1
    /\ UNCHANGED <<warnCalls, nonResultVars>>

\* result.add_warning(message, path)
CallAddWarning ==
    /\ errCalls + warnCalls < MaxCalls
    /\ \E m \in Messages, p \in Paths :
           result' = AddWarning(result, m, p, "VALIDATION_WARNING")
    /\ warnCalls' = warnCalls + 1
    /\ UNCHANGED <<errCalls, nonResultVars>>

NextResult ==
    \/ CallAddError
    \/ CallAddWarning

SpecResult == InitResult /\ [][NextResult]_vars

(***************************************************************************)
(* The copy session: _migrate_v1_to_v2 on objects.  Lists and dicts are    *)
(* objects of a heap and a StructureData holds the addresses of its tags   *)
(* list and of its structure dict; a dict holds the addresses of its       *)
(* values.  After the migration the caller changes nodes of either tree.   *)
(***************************************************************************)
MaxMutations == 2

HeapList(items) == [t |-> "list", keys |-> <<>>, refs |-> <<>>, items |-> items]
HeapDict(keys, refs) == [t |-> "dict", keys |-> keys, refs |-> refs, items |-> <<>>]

\* the objects json.loads builds for a tree of dicts and lists of strings:
\* one new object per container; the result is the heap and the address
RECURSIVE Alloc(_, _), AllocEntries(_, _, _)
Alloc(h, v) ==
    IF v.t = "list"
    THEN [h |-> Append(h, HeapList([i \in 1..Len(v.c) |-> v.c[i].v.s])),
          a |-> Len(h) + 1]
    ELSE LET r == AllocEntries(h, v.c, <<>>)
         IN  [h |-> Append(r.h, HeapDict([i \in 1..Len(v.c) |-> v.c[i].k], r.refs)),
              a |-> Len(r.h) + 1]
AllocEntries(h, c, refs) ==
    IF c = <<>> THEN [h |-> h, refs |-> refs]
    ELSE LET r == Alloc(h, c[1].v)
         IN  AllocEntries(r.h, Tail(c), Append(refs, r.a))

\* the value an address denotes
RECURSIVE Deref(_, _)
Deref(h, a) ==
    IF h[a].t = "list" THEN FileList(h[a].items)
    ELSE JDict([i \in 1..Len(h[a].keys) |-> Entry(h[a].keys[i], Deref(h, h[a].refs[i]))])

\* the addresses reachable from a
RECURSIVE Reach(_, _)
Reach(h, a) ==
    {a} \cup UNION {Reach(h, h[a].refs[i]) : i \in 1..Len(h[a].refs)}

\* a StructureData with its tags and tree read through the heap
View(h, obj) ==
    [obj EXCEPT !.tags = Deref(h, obj.tags), !.structure = Deref(h, obj.structure)]

CopyTrees ==
    {TreeFlat, TreeDeep,
     JDict(<<Entry(<<"a">>, JDict(<<Entry(<<"b">>, JDict(<<Entry(<<"c">>, FileList(<<<<"f">>>>))>>))>>))>>)}
CopyTags == {FileList(<<>>), FileList(<<<<"t">>>>)}

\* data = StructureData.from_dict(json.loads(v1 document))
InitCopy ==
    /\ \E st \in CopyTrees, tg \in CopyTags :
           LET r1 == Alloc(<<>>, st)
               r2 == Alloc(r1.h, tg)
           IN  /\ heap = r2.h
               /\ source = [FromDict(JDict(<<Entry(K_project_name, JStr(<<"p">>)),
                                             Entry(K_github_username, JStr(<<"u">>)),
                                             Entry(K_version, JStr(V_1_0)),
                                             Entry(K_template_path, JStr(<<"x">>))>>))
                               EXCEPT !.tags = r2.a, !.structure = r1.a]
    /\ migrated = None /\ touched = <<>>
    /\ sourceBefore = None /\ migratedAfter = None
    /\ SessionIdle /\ ResultIdle /\ TreeIdle /\ SnapIdle /\ StoreIdle /\ SyncIdle
    /\ RepoIdle

\* list.copy() / dict.copy(): one new object holding the same references
CopyShallow(h, a) == [h |-> Append(h, h[a]), a |-> Len(h) + 1]

\* migrated = parser._migrate_v1_to_v2(data): migrated_dict takes
\* data.tags.copy() and data.structure.copy(), from_dict stores them
MigrateCopy ==
    /\ migrated = None
    /\ LET r1 == CopyShallow(heap, source.tags)
           r2 == CopyShallow(r1.h, source.structure)
           new == [FromDict(JDict(<<
                       Entry(K_metadata, JDict(<<
                           Entry(K_project_name, source.project_name),
                           Entry(K_github_username, source.github_username),
                           Entry(K_created_date, source.created_date),
                           Entry(K_version, JStr(V_2_0_0)),
                           Entry(K_schema_version, JStr(V_2_0_0)),
                           Entry(K_description, source.description)>>))>>))
                       EXCEPT !.tags = r1.a, !.structure = r2.a]
       IN  /\ heap' = r2.h
           /\ migrated' = new
           /\ sourceBefore' = View(heap, source)
           /\ migratedAfter' = View(r2.h, new)
    /\ UNCHANGED <<source, touched, nonCopyVars>>

Side(which) == IF which = "source" THEN source ELSE migrated

RemoveAt(seq, i) == SubSeq(seq, 1, i - 1) \o SubSeq(seq, i + 1, Len(seq))

\* node.append("z") on a list node of one of the two trees
AppendFile ==
    /\ migrated # None /\ Len(touched) < MaxMutations
    /\ \E which \in {"source", "migrated"} :
         \E a \in Reach(heap, Side(which).structure) :
           /\ heap[a].t = "list"
           /\ heap' = [heap EXCEPT ![a].items = Append(@, <<"z">>)]
           /\ touched' = Append(touched, which)
    /\ UNCHANGED <<source, migrated, sourceBefore, migratedAfter, nonCopyVars>>

\* node["z"] = [] on a dict node of one of the two trees
SetKey ==
    /\ migrated # None /\ Len(touched) < MaxMutations
    /\ \E which \in {"source", "migrated"} :
         \E a \in Reach(heap, Side(which).structure) :
           /\ heap[a].t = "dict"
           /\ \A i \in 1..Len(heap[a].keys) : heap[a].keys[i] # <<"z">>
           /\ heap' = Append([heap EXCEPT ![a].keys = Append(@, <<"z">>),
                                          ![a].refs = Append(@, Len(heap) + 1)],
                             HeapList(<<>>))
           /\ touched' = Append(touched, which)
    /\ UNCHANGED <<source, migrated, sourceBefore, migratedAfter, nonCopyVars>>

\* del node[key] on a dict node of one of the two trees
DelKey ==
    /\ migrated # None /\ Len(touched) < MaxMutations
    /\ \E which \in {"source", "migrated"} :
         \E a \in Reach(heap, Side(which).structure) :
           /\ heap[a].t = "dict"
           /\ \E i \in 1..Len(heap[a].keys) :
                  heap' = [heap EXCEPT ![a].keys = RemoveAt(@, i),
                                       ![a].refs = RemoveAt(@, i)]
           /\ touched' = Append(touched, which)
    /\ UNCHANGED <<source, migrated, sourceBefore, migratedAfter, nonCopyVars>>

NextCopy ==
    \/ MigrateCopy
    \/ AppendFile
    \/ SetKey
    \/ DelKey

SpecCopy == InitCopy /\ [][NextCopy]_vars

(***************************************************************************)
(* models.py: the read accessors of StructureData                          *)
(***************************************************************************)
\* current_path = f"{path}/{key}" if path else key
ChildPath(path, key) == IF path # <<>> THEN path \o <<"/">> \o key ELSE key

\* collect_directories of get_all_directories, over the items of a dict
RECURSIVE CollectDirectories(_, _)
CollectDirectories(c, path) ==
    IF c = <<>> THEN <<>>
    ELSE LET current_path == ChildPath(path, c[1].k)
         IN  <<current_path>>
             \o (IF c[1].v.t = "dict" THEN CollectDirectories(c[1].v.c, current_path)
                                      ELSE <<>>)
             \o CollectDirectories(Tail(c), path)

\* StructureData.get_all_directories
GetAllDirectories(structure) == CollectDirectories(structure.c, <<>>)

\* s[i..].split('/') with the part read so far
RECURSIVE SplitFrom(_, _, _)
SplitFrom(s, i, part) ==
    IF i > Len(s) THEN <<part>>
    ELSE IF s[i] = "/" THEN <<part>> \o SplitFrom(s, i + 1, <<>>)
    ELSE SplitFrom(s, i + 1, Append(part, s[i]))

\* directory_path.split('/')
SplitPath(directory_path) == SplitFrom(directory_path, 1, <<>>)

\* the loop of has_directory
RECURSIVE WalkParts(_, _)
WalkParts(current, parts) ==
    IF parts = <<>> THEN TRUE
    ELSE IF current.t = "dict" /\ HasKey(current, parts[1])
         THEN WalkParts(Lookup(current, parts[1]), Tail(parts))
         ELSE FALSE

\* StructureData.has_directory
HasDirectory(structure, directory_path) == WalkParts(structure, SplitPath(directory_path))

\* the loop of get_directory_files: `part in current` is not guarded by an
\* isinstance test, and current[part] on a list or a str is a TypeError
RECURSIVE DescendParts(_, _)
DescendParts(current, parts) ==
    IF parts = <<>> THEN [raised |-> "", found |-> TRUE, node |-> current]
    ELSE LET has == PyIn(parts[1], current)
         IN  IF has = "raise" THEN [raised |-> "TypeError", found |-> FALSE, node |-> current]
             ELSE IF has = "false" THEN [raised |-> "", found |-> FALSE, node |-> current]
             ELSE IF current.t = "dict"
                  THEN DescendParts(Lookup(current, parts[1]), Tail(parts))
                  ELSE [raised |-> "TypeError", found |-> FALSE, node |-> current]

\* the file names of a list value
Names(v) == [i \in 1..Len(v.c) |-> v.c[i].v.s]

\* files.extend(value) for every list value of the items of a dict
RECURSIVE ExtendLists(_)
ExtendLists(c) ==
    IF c = <<>> THEN <<>>
    ELSE (IF c[1].v.t = "list" THEN Names(c[1].v) ELSE <<>>) \o ExtendLists(Tail(c))

\* StructureData.get_directory_files: [raised, files]
GetDirectoryFiles(structure, directory_path) ==
    LET walk == DescendParts(structure, SplitPath(directory_path))
    IN  IF walk.raised # "" THEN [raised |-> walk.raised, files |-> <<>>]
        ELSE IF ~walk.found THEN [raised |-> "", files |-> <<>>]
        ELSE IF walk.node.t = "list" THEN [raised |-> "", files |-> Names(walk.node)]
        ELSE IF walk.node.t = "dict" THEN [raised |-> "", files |-> ExtendLists(walk.node.c)]
        ELSE [raised |-> "", files |-> <<>>]

\* collect_files of get_all_files: files_by_dir[current_path] = value
RECURSIVE CollectFiles(_, _, _)
CollectFiles(c, path, files_by_dir) ==
    IF c = <<>> THEN files_by_dir
    ELSE LET current_path == ChildPath(path, c[1].k)
         IN  CollectFiles(Tail(c), path,
                 IF c[1].v.t = "list" THEN DictSet(files_by_dir, current_path, c[1].v)
                 ELSE IF c[1].v.t = "dict"
                      THEN CollectFiles(c[1].v.c, current_path, files_by_dir)
                      ELSE files_by_dir)

\* StructureData.get_all_files: the items of the returned dict
GetAllFiles(structure) == CollectFiles(structure.c, <<>>, <<>>)

(***************************************************************************)
(* The tree session: one structure tree and the accessors called on it     *)
(***************************************************************************)
MaxNodes == 3
TreeKeys == {<<"a">>, <<"b">>, <<"a", "/", "b">>, <<>>}
FileNames == {<<"f">>, <<"g">>}

FileLists == {FileList(<<>>), FileList(<<<<"f">>>>), FileList(<<<<"f">>, <<"g">>>>)}

\* sizes[n + 1] is the set of dicts with n keys in all, at all depths
\* together; the next set is made of a first entry and a smaller dict
ValuesOfSize(sizes, m) == IF m = 0 THEN FileLists \cup {JDict(<<>>)} ELSE sizes[m + 1]

NextSize(sizes) ==
    LET n == Len(sizes)
    IN  UNION { UNION { { JDict(<<Entry(k, v)>> \o rest.c) :
                            k \in {kk \in TreeKeys : ~HasKey(rest, kk)},
                            v \in ValuesOfSize(sizes, m) } :
                        rest \in sizes[n - m] } :
                m \in 0..(n - 1) }

\* the table of the sizes 0..n, each set computed once from the ones before
RECURSIVE TreeSizes(_, _)
TreeSizes(sizes, n) ==
    IF Len(sizes) > n THEN sizes
    ELSE CHOOSE table \in {TreeSizes(longer, n) :
                               longer \in {Append(sizes, NextSize(sizes))}} : TRUE

\* t is a dict with at most n keys in all: the empty dict, or a first
\* entry before a smaller dict
IsTreeUpTo(t, n) ==
    \/ t = JDict(<<>>)
    \/ \E sizes \in {TreeSizes(<<{JDict(<<>>)}>>, n - 1)} :
         \E size \in 1..n : \E m \in 0..(size - 1) :
           \E rest \in sizes[size - m] :
             \E k \in {kk \in TreeKeys : ~HasKey(rest, kk)} :
               \E v \in ValuesOfSize(sizes, m) :
                 t = JDict(<<Entry(k, v)>> \o rest.c)

ProbePaths == {<<"a">>, <<"a", "/", "b">>, <<"b", "/", "a">>}
FilePaths == ProbePaths \cup {<<"b">>, <<"a", "/", "f">>, <<"a", "/", "b", "/", "g">>}

InitTree ==
    /\ IsTreeUpTo(tree, MaxNodes)
    /\ allDirs = None /\ allFiles = None /\ probe = None /\ dirFiles = None
    /\ SessionIdle /\ ResultIdle /\ CopyIdle /\ SnapIdle /\ StoreIdle /\ SyncIdle
    /\ RepoIdle

\* data.get_all_directories()
CallGetAllDirectories ==
    /\ allDirs = None /\ dirFiles = None
    /\ allDirs' = [kind |-> "list", items |-> GetAllDirectories(tree)]
    /\ UNCHANGED <<tree, allFiles, probe, dirFiles, nonTreeVars>>

\* data.get_all_files()
CallGetAllFiles ==
    /\ allDirs # None /\ allFiles = None /\ probe = None
    /\ allFiles' = [kind |-> "dict", entries |-> GetAllFiles(tree)]
    /\ UNCHANGED <<tree, allDirs, probe, dirFiles, nonTreeVars>>

\* data.has_directory(path), for a returned path or another one
CallHasDirectory ==
    /\ allDirs # None /\ allFiles = None /\ probe = None
    /\ \E path \in {allDirs.items[i] : i \in 1..Len(allDirs.items)} \cup ProbePaths :
           probe' = [kind |-> "call", path |-> path, found |-> HasDirectory(tree, path)]
    /\ UNCHANGED <<tree, allDirs, allFiles, dirFiles, nonTreeVars>>

\* data.get_directory_files(path)
CallGetDirectoryFiles ==
    /\ allDirs = None /\ dirFiles = None
    /\ \E path \in FilePaths :
           dirFiles' = [kind |-> "call", path |-> path,
                        out |-> GetDirectoryFiles(tree, path)]
    /\ UNCHANGED <<tree, allDirs, allFiles, probe, nonTreeVars>>

NextTree ==
    \/ CallGetDirectoryFiles
    \/ CallGetAllDirectories
    \/ CallGetAllFiles
    \/ CallHasDirectory

SpecTree == InitTree /\ [][NextTree]_vars

(***************************************************************************)
(* structure_sync.py: FileTemplate and DirectoryStructure.  The fields of  *)
(* a FileTemplate are JSON values (None is JNull); a DirectoryStructure is *)
(* [name, path, subdirs, files, metadata] with subdirs and files lists.    *)
(* A directory on disk is a dict from entry name to node, in the order     *)
(* iterdir() yields the entries; a text file is the str of its content and *)
(* a file that cannot be decoded is the node Undecodable.                  *)
(***************************************************************************)
K_path == <<"path">>
K_content == <<"content">>
K_template_vars == <<"template_vars">>
K_checksum == <<"checksum">>
K_last_updated == <<"last_updated">>
K_name == <<"name">>
K_subdirs == <<"subdirs">>
K_files == <<"files">>

\* hashlib.md5(content.encode()).hexdigest(): the digest is a function of
\* the content, written as the content between "md5(" and ")"
Md5(text) == <<"md5(">> \o text \o <<")">>

\* datetime.now().isoformat() at the second `now`
IsoFormat(now) == <<"T", ToString(now)>>

\* FileTemplate(path, content, template_vars, checksum, last_updated) with
\* __post_init__: only a checksum that is None is calculated
FileTemplate(path, content_, template_vars, checksum, last_updated, now) ==
    [path |-> path, content |-> content_, template_vars |-> template_vars,
     checksum |-> IF checksum = JNull THEN JStr(Md5(content_.s)) ELSE checksum,
     last_updated |-> IF last_updated = JNull THEN JStr(IsoFormat(now))
                                              ELSE last_updated]

DirectoryStructure(name, path, subdirs, files, metadata) ==
    [name |-> name, path |-> path, subdirs |-> subdirs, files |-> files,
     metadata |-> metadata]

\* dataclasses.asdict(file)
AsDict(file) ==
    JDict(<<Entry(K_path, file.path), Entry(K_content, file.content),
            Entry(K_template_vars, file.template_vars),
            Entry(K_checksum, file.checksum),
            Entry(K_last_updated, file.last_updated)>>)

\* DirectoryStructure.to_dict
RECURSIVE ToDict(_)
ToDict(structure) ==
    JDict(<<Entry(K_name, structure.name), Entry(K_path, structure.path),
            Entry(K_subdirs, JList([i \in 1..Len(structure.subdirs) |->
                                       ToDict(structure.subdirs[i])])),
            Entry(K_files, JList([i \in 1..Len(structure.files) |->
                                     AsDict(structure.files[i])])),
            Entry(K_metadata, structure.metadata)>>)

\* FileTemplate(**file_data): [raised, value]
FileTemplateFromKwargs(file_data, now) ==
    IF \/ file_data.t # "dict"
       \/ \E k \in {K_path, K_content, K_template_vars} : ~HasKey(file_data, k)
       \/ \E i \in 1..Len(file_data.c) :
              file_data.c[i].k \notin {K_path, K_content, K_template_vars,
                                       K_checksum, K_last_updated}
    THEN [raised |-> "TypeError", value |-> JNull]
    ELSE [raised |-> "",
          value |-> FileTemplate(Lookup(file_data, K_path),
                                 Lookup(file_data, K_content),
                                 Lookup(file_data, K_template_vars),
                                 DictGet(file_data, K_checksum, JNull),
                                 DictGet(file_data, K_last_updated, JNull), now)]

\* DirectoryStructure.from_dict on a decoded dict: [raised, value]
RECURSIVE StructureFromDict(_, _)
StructureFromDict(data, now) ==
    LET subs == DictGet(data, K_subdirs, JList(<<>>)).c
        fls == DictGet(data, K_files, JList(<<>>)).c
        subdirs == [i \in 1..Len(subs) |-> StructureFromDict(subs[i].v, now)]
        files == [i \in 1..Len(fls) |-> FileTemplateFromKwargs(fls[i].v, now)]
    IN  IF \E i \in 1..Len(subdirs) : subdirs[i].raised # ""
        THEN [raised |-> subdirs[CHOOSE i \in 1..Len(subdirs) :
                                     subdirs[i].raised # ""].raised,
              value |-> JNull]
        ELSE IF \E i \in 1..Len(files) : files[i].raised # ""
             THEN [raised |-> "TypeError", value |-> JNull]
        ELSE IF ~HasKey(data, K_name) \/ ~HasKey(data, K_path)
             THEN [raised |-> "KeyError", value |-> JNull]
        ELSE [raised |-> "",
              value |-> DirectoryStructure(
                            Lookup(data, K_name), Lookup(data, K_path),
                            [i \in 1..Len(subdirs) |-> subdirs[i].value],
                            [i \in 1..Len(files) |-> files[i].value],
                            DictGet(data, K_metadata, JDict(<<>>)))]

Undecodable == JV("bin", <<>>, <<>>)
\* a file whose open() raises PermissionError
Unreadable == JV("noperm", <<>>, <<>>)

\* any(pattern in item.name for pattern in exclude_patterns)
Excluded(name, exclude_patterns) ==
    \E i \in 1..Len(exclude_patterns) : IsSubstr(exclude_patterns[i], name)

RECURSIVE ScanDirectory(_, _, _, _, _, _), ScanItems(_, _, _, _, _, _)

RECURSIVE ScanItemsStopAtBadFile(_, _, _, _, _, _)
ScanItemsStopAtBadFile(items, pathstr, dirname, exclude_patterns, now, acc) ==
    IF items = <<>> THEN acc
    ELSE IF Excluded(items[1].k, exclude_patterns)
    THEN ScanItemsStopAtBadFile(Tail(items), pathstr, dirname, exclude_patterns, now, acc)
    ELSE IF items[1].v.t = "dict"
    THEN ScanItemsStopAtBadFile(Tail(items), pathstr, dirname, exclude_patterns, now,
             [acc EXCEPT !.subdirs = Append(@,
                  ScanDirectory(items[1].v, pathstr \o <<"/">> \o items[1].k,
                                items[1].k, items[1].k, exclude_patterns, now))])
    ELSE IF items[1].v.t = "str"
    THEN ScanItemsStopAtBadFile(Tail(items), pathstr, dirname, exclude_patterns, now,
             [acc EXCEPT !.files = Append(@,
                  FileTemplate(JStr(dirname \o <<"/">> \o items[1].k), items[1].v,
                               JDict(<<>>), JNull, JNull, now))])
    ELSE acc

\* StructureSynchronizer._scan_directory(path, name): dir is the directory
\* at path, dirname is path.name and pathstr is str(path)
ScanDirectory(dir, pathstr, dirname, name, exclude_patterns, now) ==
    LET found == ScanItems(dir.c, pathstr, dirname, exclude_patterns, now,
                           [subdirs |-> <<>>, files |-> <<>>])
    IN  DirectoryStructure(JStr(name), JStr(pathstr), found.subdirs, found.files,
            JDict(<<Entry(<<"scanned_at">>, JStr(IsoFormat(now))),
                    Entry(<<"total_files">>, JNum(<<ToString(Len(found.files))>>)),
                    Entry(<<"total_subdirs">>, JNum(<<ToString(Len(found.subdirs))>>))>>))
\* the loop over path.iterdir(); a file whose read raises UnicodeDecodeError
\* or PermissionError is skipped
ScanItems(items, pathstr, dirname, exclude_patterns, now, acc) ==
    IF items = <<>> THEN acc
    ELSE LET item == items[1]
             rest == Tail(items)
         IN  IF Excluded(item.k, exclude_patterns)
             THEN ScanItems(rest, pathstr, dirname, exclude_patterns, now, acc)
             ELSE IF item.v.t = "dict"
             THEN ScanItems(rest, pathstr, dirname, exclude_patterns, now,
                      [acc EXCEPT !.subdirs = Append(@,
                           ScanDirectory(item.v, pathstr \o <<"/">> \o item.k,
                                         item.k, item.k, exclude_patterns, now))])
             ELSE IF item.v.t = "str"
             THEN ScanItems(rest, pathstr, dirname, exclude_patterns, now,
                      [acc EXCEPT !.files = Append(@,
                           FileTemplate(JStr(dirname \o <<"/">> \o item.k), item.v,
                                        JDict(<<>>), JNull, JNull, now))])
             ELSE ScanItems(rest, pathstr, dirname, exclude_patterns, now, acc)

\* files1 = {f.path: f for f in structure.files}: the keys, and the value
\* of a key (the last file of the list with that path)
PathKeys(files) == {files[i].path.s : i \in 1..Len(files)}
FileOfPath(files, path) ==
    files[CHOOSE i \in 1..Len(files) :
              /\ files[i].path.s = path
              /\ \A j \in (i + 1)..Len(files) : files[j].path.s # path]
DirNames(subdirs) == {subdirs[i].name.s : i \in 1..Len(subdirs)}

CompareStructuresKeepCommon(structure1, structure2) ==
    LET files1 == PathKeys(structure1.files)
        files2 == PathKeys(structure2.files)
        dirs1 == DirNames(structure1.subdirs)
        dirs2 == DirNames(structure2.subdirs)
    IN  [files_added    |-> files2,
         files_removed  |-> files1 \ files2,
         files_modified |-> {path \in files1 \cap files2 :
                                FileOfPath(structure1.files, path).checksum
                                    # FileOfPath(structure2.files, path).checksum},
         dirs_added     |-> dirs2 \ dirs1,
         dirs_removed   |-> dirs1 \ dirs2]

\* StructureSynchronizer.compare_structures: the five lists are filled in
\* the iteration order of a set, so each is given as the set of its items
CompareStructures(structure1, structure2) ==
    LET files1 == PathKeys(structure1.files)
        files2 == PathKeys(structure2.files)
        dirs1 == DirNames(structure1.subdirs)
        dirs2 == DirNames(structure2.subdirs)
    IN  [files_added    |-> files2 \ files1,
         files_removed  |-> files1 \ files2,
         files_modified |-> {path \in files1 \cap files2 :
                                FileOfPath(structure1.files, path).checksum
                                    # FileOfPath(structure2.files, path).checksum},
         dirs_added     |-> dirs2 \ dirs1,
         dirs_removed   |-> dirs1 \ dirs2]

(***************************************************************************)
(* The snapshot session: two directories on disk are scanned, a template   *)
(* is constructed directly, a template document is rebuilt with from_dict, *)
(* and the two snapshots are compared in both directions                   *)
(***************************************************************************)
MaxClock == 2

\* config['sync_rules']['exclude_patterns'] of the default configuration
ExcludePatterns == << <<".git">>, <<"__pycache__">>, <<"*", ".pyc">> >>

\* the orderings of a list
Orderings(seq) ==
    { [i \in 1..Len(seq) |-> seq[f[i]]] :
        f \in {g \in [1..Len(seq) -> 1..Len(seq)] :
                 \A i, j \in 1..Len(seq) : g[i] = g[j] => i = j} }

\* the directories of the session: a.txt, new.txt and sub/b.txt, each
\* present or not, a.txt and sub/b.txt with one of two contents, in every
\* order iterdir() can yield them
DirEntryOpts ==
    [a   : {Absent, JStr(<<"x">>), JStr(<<"y">>)},
     new : {Absent, JStr(<<"n">>)},
     sub : {Absent, JDict(<<Entry(<<"b.txt">>, JStr(<<"x">>))>>),
            JDict(<<Entry(<<"b.txt">>, JStr(<<"y">>))>>)}]
DirTrees ==
    UNION { { JDict(entries) :
                entries \in Orderings(DropAbsent(<<Entry(<<"a.txt">>, o.a),
                                                      Entry(<<"new.txt">>, o.new),
                                                      Entry(<<"sub">>, o.sub)>>)) } :
            o \in DirEntryOpts }

Dir(parent, name, t) == [parent |-> parent, name |-> name, tree |-> t]

\* StructureSynchronizer.scan_structure(source_path) for an existing path
ScanStructure(dir, now) ==
    ScanDirectory(dir.tree, dir.parent \o <<"/">> \o dir.name, dir.name, dir.name,
                  ExcludePatterns, now)

\* template documents handed to from_dict: the saved form of snapA, and
\* that form after the content of its first file was edited
EditFirstContent(doc, text) ==
    LET files == Lookup(doc, K_files)
    IN  IF files.c = <<>> THEN doc
        ELSE JDict(DictSet(doc.c, K_files,
                 JList(<<JDict(DictSet(files.c[1].v.c, K_content, JStr(text)))>>
                       \o [i \in 1..(Len(files.c) - 1) |-> files.c[i + 1].v])))

InitSnap ==
    /\ clock = 0
    /\ \E t \in DirTrees : dirA = Dir(<<"/w1">>, <<"root">>, t)
    /\ \E t \in DirTrees, name \in {<<"root">>, <<"other">>} :
           dirB = Dir(<<"/w2">>, name, t)
    /\ snapA = None /\ snapB = None /\ made = None /\ rebuilt = None
    /\ diffAB = None /\ diffBA = None
    /\ SessionIdle /\ ResultIdle /\ CopyIdle /\ TreeIdle /\ StoreIdle /\ SyncIdle
    /\ RepoIdle

\* snapA = sync.scan_structure(dirA), now or a second later
ScanA ==
    /\ snapA = None
    /\ \E now \in {clock, clock + 1} :
           /\ now <= MaxClock
           /\ clock' = now
           /\ snapA' = ScanStructure(dirA, now)
    /\ UNCHANGED <<dirA, dirB, snapB, made, rebuilt, diffAB, diffBA, nonSnapVars>>

\* snapB = sync.scan_structure(dirB)
ScanB ==
    /\ snapA # None /\ snapB = None
    /\ \E now \in {clock, clock + 1} :
           /\ now <= MaxClock
           /\ clock' = now
           /\ snapB' = ScanStructure(dirB, now)
    /\ UNCHANGED <<dirA, dirB, snapA, made, rebuilt, diffAB, diffBA, nonSnapVars>>

\* FileTemplate(path='a.txt', content=..., template_vars={}) with or
\* without the checksum argument
MakeTemplate ==
    /\ snapB # None /\ made = None /\ diffAB = None
    /\ \E text \in {<<"x">>, <<"y">>}, checksum \in {JNull, JStr(Md5(<<"x">>))} :
           made' = FileTemplate(JStr(<<"a.txt">>), JStr(text), JDict(<<>>),
                                checksum, JNull, clock)
    /\ UNCHANGED <<clock, dirA, dirB, snapA, snapB, rebuilt, diffAB, diffBA, nonSnapVars>>

\* DirectoryStructure.from_dict(data)
RebuildFromDict ==
    /\ snapB # None /\ rebuilt = None /\ made = None /\ diffAB = None
    /\ \E data \in {ToDict(snapA), EditFirstContent(ToDict(snapA), <<"y">>)} :
           rebuilt' = StructureFromDict(data, clock)
    /\ UNCHANGED <<clock, dirA, dirB, snapA, snapB, made, diffAB, diffBA, nonSnapVars>>

\* sync.compare_structures(snapA, snapB)
CompareAB ==
    /\ snapA # None /\ snapB # None /\ diffAB = None
    /\ diffAB' = CompareStructures(snapA, snapB)
    /\ UNCHANGED <<clock, dirA, dirB, snapA, snapB, made, rebuilt, diffBA, nonSnapVars>>

\* sync.compare_structures(snapB, snapA)
CompareBA ==
    /\ diffAB # None /\ diffBA = None
    /\ diffBA' = CompareStructures(snapB, snapA)
    /\ UNCHANGED <<clock, dirA, dirB, snapA, snapB, made, rebuilt, diffAB, nonSnapVars>>

NextSnap ==
    \/ ScanA
    \/ ScanB
    \/ MakeTemplate
    \/ RebuildFromDict
    \/ CompareAB
    \/ CompareBA

SpecSnap == InitSnap /\ [][NextSnap]_vars

(***************************************************************************)
(* The schema session: SchemaValidator.validate called on one decoded      *)
(* document                                                                *)
(***************************************************************************)
InitSchema ==
    /\ validator \in Validators \ {None}
    /\ content \in {JsonDumps(doc) : doc \in Docs}
    /\ vr = None /\ ps = None /\ pf = None /\ exported = None
    /\ rt = None /\ mig = None /\ mig2 = None
    /\ ResultIdle /\ CopyIdle /\ TreeIdle /\ SnapIdle /\ StoreIdle /\ SyncIdle
    /\ RepoIdle

\* validator.validate(json.loads(content))
DoSchemaValidate ==
    /\ vr = None
    /\ vr' = [kind |-> "done", out |-> SchemaValidate(validator, JsonLoads(content).v)]
    /\ UNCHANGED <<validator, content, ps, pf, exported, rt, mig, mig2, nonSessionVars>>

NextSchema ==
    \/ DoSchemaValidate

SpecSchema == InitSchema /\ [][NextSchema]_vars

(***************************************************************************)
(* The scan session: one path, missing or a directory with text files,     *)
(* files that cannot be decoded or opened, and entries named like the      *)
(* default exclusion patterns, is scanned once                             *)
(***************************************************************************)
\* the target of Path.exists() returning False
Missing == Dir(<<"/w1">>, <<"root">>, Absent)

ScanFileOpts == {Absent, JStr(<<"x">>), Undecodable, Unreadable}
ScanSubOpts ==
    {Absent,
     JDict(<<Entry(<<"b.txt">>, JStr(<<"y">>))>>),
     JDict(<<Entry(<<"b.txt">>, Undecodable), Entry(<<"c.txt">>, JStr(<<"y">>))>>),
     JDict(<<Entry(<<"deep">>, JDict(<<Entry(<<"b.txt">>, Unreadable),
                                      Entry(<<"m", ".pyc">>, JStr(<<"c">>)),
                                      Entry(<<"c.txt">>, JStr(<<"z">>)),
                                      Entry(<<"__pycache__">>, JDict(<<>>))>>)),
             Entry(<<"d.txt">>, Undecodable)>>)}
ScanTrees ==
    { JDict(DropAbsent(<<Entry(<<"a.txt">>, a),
                         Entry(<<".git">>, git),
                         Entry(<<".git", "hub">>, hub),
                         Entry(<<"m", ".pyc">>, pyc),
                         Entry(<<"sub">>, sub)>>)) :
        a \in ScanFileOpts,
        git \in {Absent, JDict(<<Entry(<<"HEAD">>, JStr(<<"h">>))>>)},
        hub \in {Absent, JDict(<<Entry(<<"ci.yml">>, JStr(<<"w">>))>>)},
        pyc \in {Absent, JStr(<<"c">>)},
        sub \in ScanSubOpts }

\* StructureSynchronizer.scan_structure(source_path): [raised, value]
ScanStructureCall(dir, now) ==
    IF dir.tree = Absent
    THEN [raised |-> "FileNotFoundError", value |-> None]
    ELSE [raised |-> "", value |-> ScanStructure(dir, now)]

InitScan ==
    /\ clock = 0
    /\ dirA \in {Missing} \cup {Dir(<<"/w1">>, <<"root">>, t) : t \in ScanTrees}
    /\ dirB = None /\ snapA = None /\ snapB = None /\ made = None /\ rebuilt = None
    /\ diffAB = None /\ diffBA = None
    /\ SessionIdle /\ ResultIdle /\ CopyIdle /\ TreeIdle /\ StoreIdle /\ SyncIdle
    /\ RepoIdle

\* snapA = sync.scan_structure(dirA), now or a second later
CallScanStructure ==
    /\ snapA = None
    /\ \E now \in {clock, clock + 1} :
           /\ now <= MaxClock
           /\ clock' = now
           /\ snapA' = ScanStructureCall(dirA, now)
    /\ UNCHANGED <<dirA, dirB, snapB, made, rebuilt, diffAB, diffBA, nonSnapVars>>

NextScan ==
    \/ CallScanStructure

SpecScan == InitScan /\ [][NextScan]_vars

(***************************************************************************)
(* The store session: save_structure, load_structure and list_structures   *)
(* on templates_dir.  The store is [exists, templates, parent]: whether    *)
(* templates_dir exists, and the files (name -> JSON text) of templates_dir *)
(* and of the directory that holds it                                      *)
(***************************************************************************)
MaxSaves == 3

Suffix == <<".json">>

\* templates_dir / f"{filename}.json", as the operating system resolves it
\* once templates_dir exists: a file of templates_dir, a file of its
\* parent ('..'), or a path through a sub-directory, which no call creates
TemplatePath(filename) ==
    LET parts == SplitPath(filename \o Suffix)
    IN  IF Len(parts) = 1 THEN [dir |-> "templates", file |-> parts[1]]
        ELSE IF Len(parts) = 2 /\ parts[1] = <<"..">>
             THEN [dir |-> "parent", file |-> parts[2]]
             ELSE [dir |-> "missing", file |-> parts[Len(parts)]]

\* StructureSynchronizer.save_structure: [raised, store]
SaveStructure(st, structure, filename) ==
    LET made_ == [st EXCEPT !.exists = TRUE]
        at == TemplatePath(filename)
        text == JsonDumps(ToDict(structure))
    IN  IF at.dir = "templates"
        THEN [raised |-> "",
              store |-> [made_ EXCEPT !.templates = DictSet(@, at.file, text)]]
        ELSE IF at.dir = "parent"
        THEN [raised |-> "",
              store |-> [made_ EXCEPT !.parent = DictSet(@, at.file, text)]]
        ELSE [raised |-> "FileNotFoundError", store |-> made_]

\* StructureSynchronizer.load_structure: [raised, value]
LoadStructure(st, filename, now) ==
    LET at == TemplatePath(filename)
        files == IF at.dir = "templates" /\ st.exists THEN st.templates
                 ELSE IF at.dir = "parent" /\ st.exists THEN st.parent
                 ELSE <<>>
    IN  IF ~HasKey(JDict(files), at.file)
        THEN [raised |-> "FileNotFoundError", value |-> JNull]
        ELSE StructureFromDict(JsonLoads(Lookup(JDict(files), at.file)).v, now)

\* Path.stem of a file name that ends in .json: a name that is only
\* '.json' is a dot-file without suffix
Stem(file) == IF Len(file) = 1 THEN file ELSE SubSeq(file, 1, Len(file) - 1)

\* StructureSynchronizer.list_structures: the stems of the *.json files of
\* templates_dir, in the order glob yields them (given as a set)
ListStructures(st) ==
    IF ~st.exists THEN {}
    ELSE {Stem(st.templates[i].k) : i \in 1..Len(st.templates)}

StoreNames == {<<"t">>, <<"u">>, <<"..", "/", "t">>, <<>>, <<"d", "/", "t">>}

\* the structures handed to save_structure: scans of three directories
StoreStructures ==
    { ScanStructure(Dir(<<"/w1">>, <<"root">>, JDict(entries)), 0) :
        entries \in { <<>>,
                      <<Entry(<<"a.txt">>, JStr(<<"x">>))>>,
                      <<Entry(<<"a.txt">>, JStr(<<"y">>)),
                        Entry(<<"sub">>, JDict(<<Entry(<<"b.txt">>, JStr(<<"x">>))>>))>> } }

InitStore ==
    /\ \E exists \in BOOLEAN :
           store = [exists |-> exists, templates |-> <<>>, parent |-> <<>>]
    /\ saved = [n \in StoreNames |-> None]
    /\ saves = 0 /\ listing = None /\ loaded = None
    /\ SessionIdle /\ ResultIdle /\ CopyIdle /\ TreeIdle /\ SnapIdle /\ SyncIdle
    /\ RepoIdle

\* sync.save_structure(structure, name)
CallSaveStructure ==
    /\ saves < MaxSaves
    /\ \E structure \in StoreStructures, n \in StoreNames :
           LET out == SaveStructure(store, structure, n)
           IN  /\ store' = out.store
               /\ saved' = IF out.raised = "" THEN [saved EXCEPT ![n] = structure]
                                              ELSE saved
    /\ saves' = saves + 1
    /\ listing' = None /\ loaded' = None
    /\ UNCHANGED nonStoreVars

\* sync.load_structure(name)
CallLoadStructure ==
    /\ loaded = None
    /\ \E n \in StoreNames :
           loaded' = [name |-> n, out |-> LoadStructure(store, n, 1)]
    /\ UNCHANGED <<store, saved, saves, listing, nonStoreVars>>

\* sync.list_structures()
CallListStructures ==
    /\ listing = None
    /\ listing' = [names |-> ListStructures(store)]
    /\ UNCHANGED <<store, saved, saves, loaded, nonStoreVars>>

NextStore ==
    \/ CallSaveStructure
    \/ CallLoadStructure
    \/ CallListStructures

SpecStore == InitStore /\ [][NextStore]_vars

(***************************************************************************)
(* structure_sync.py: sync_structure on a file system.  A path is the list *)
(* of its names below the working directory, whose tree is a dict from     *)
(* entry name to node.  A run of sync_structure is [fs, ops, raised]: the  *)
(* tree, the changes made so far in order, and the exception raised.       *)
(***************************************************************************)
\* the node at a path: [found, node]
RECURSIVE FsLookup(_, _)
FsLookup(node, path) ==
    IF path = <<>> THEN [found |-> TRUE, node |-> node]
    ELSE IF node.t = "dict" /\ HasKey(node, path[1])
         THEN FsLookup(Lookup(node, path[1]), Tail(path))
         ELSE [found |-> FALSE, node |-> JNull]

\* Path.exists()
FsExists(root, path) == FsLookup(root, path).found

\* the tree with `node` at a path whose parent is a directory
RECURSIVE FsPut(_, _, _)
FsPut(dir, path, node) ==
    IF Len(path) = 1 THEN JDict(DictSet(dir.c, path[1], node))
    ELSE JDict(DictSet(dir.c, path[1], FsPut(Lookup(dir, path[1]), Tail(path), node)))

Op(op, path, src) == [op |-> op, path |-> path, src |-> src]
Failed(st, type) == [st EXCEPT !.raised = type]

\* target.mkdir(parents=True, exist_ok=True), one missing directory of the
\* path after the other
RECURSIVE Mkdir(_, _, _)
Mkdir(st, path, depth) ==
    IF st.raised # "" \/ depth > Len(path) THEN st
    ELSE LET prefix == SubSeq(path, 1, depth)
             at == FsLookup(st.fs, prefix)
         IN  IF at.found
             THEN IF at.node.t = "dict" THEN Mkdir(st, path, depth + 1)
                  ELSE Failed(st, IF depth = Len(path) THEN "FileExistsError"
                                                       ELSE "NotADirectoryError")
             ELSE Mkdir([st EXCEPT !.fs = FsPut(@, prefix, JDict(<<>>)),
                                   !.ops = Append(@, Op("mkdir", prefix, <<>>))],
                        path, depth + 1)

\* f"{target.name}_backup_{datetime.now().strftime('%Y%m%d_%H%M%S')}"
BackupPath(target, now) ==
    SubSeq(target, 1, Len(target) - 1)
        \o <<target[Len(target)] \o <<"_backup_", ToString(now)>>>>

\* StructureSynchronizer._create_backup: shutil.copytree needs a directory
\* to copy and a destination that does not exist
CreateBackup(st, target, now) ==
    IF ~FsExists(st.fs, target) THEN st
    ELSE IF FsLookup(st.fs, target).node.t # "dict" THEN Failed(st, "NotADirectoryError")
    ELSE IF FsExists(st.fs, BackupPath(target, now)) THEN Failed(st, "FileExistsError")
    ELSE [st EXCEPT !.fs = FsPut(@, BackupPath(target, now), FsLookup(st.fs, target).node),
                    !.ops = Append(@, Op("copytree", BackupPath(target, now), target))]

RECURSIVE ReplaceFirst(_, _, _)
ReplaceFirst(text, old, new) ==
    IF Len(text) < Len(old) \/ old = <<>> THEN text
    ELSE IF SubSeq(text, 1, Len(old)) = old
         THEN new \o SubSeq(text, Len(old) + 1, Len(text))
         ELSE <<text[1]>> \o ReplaceFirst(Tail(text), old, new)

\* str.replace(old, new) on strings of atoms
RECURSIVE Replace(_, _, _)
Replace(text, old, new) ==
    IF Len(text) < Len(old) \/ old = <<>> THEN text
    ELSE IF SubSeq(text, 1, Len(old)) = old
         THEN new \o Replace(SubSeq(text, Len(old) + 1, Len(text)), old, new)
         ELSE <<text[1]>> \o Replace(Tail(text), old, new)

\* for var, value in template_vars.items(): content.replace(f"{{{var}}}", value)
RECURSIVE Substitute(_, _)
Substitute(text, template_vars) ==
    IF template_vars = <<>> THEN text
    ELSE Substitute(Replace(text, <<"{">> \o template_vars[1].k \o <<"}">>,
                            template_vars[1].v),
                    Tail(template_vars))

\* Path(file_template.path).name
Basename(pathstr) ==
    LET parts == SelectSeq(SplitPath(pathstr), LAMBDA part : part # <<>>)
    IN  IF parts = <<>> THEN <<>> ELSE parts[Len(parts)]

\* target_dir / Path(file_template.path).name
TargetFile(target_dir, file_template) ==
    IF Basename(file_template.path.s) = <<>> THEN target_dir
    ELSE Append(target_dir, Basename(file_template.path.s))

SyncFileAlways(st, file_template, target_dir, template_vars, cfg) ==
    LET target_file == TargetFile(target_dir, file_template)
    IN  IF st.raised # "" THEN st
        ELSE IF FsExists(st.fs, target_file)
                    /\ FsLookup(st.fs, target_file).node.t = "dict"
             THEN Failed(st, "IsADirectoryError")
        ELSE [st EXCEPT
                 !.fs = FsPut(@, target_file,
                              JStr(Substitute(file_template.content.s, template_vars))),
                 !.ops = Append(@, Op("write", target_file, <<>>))]

\* StructureSynchronizer._sync_file
SyncFile(st, file_template, target_dir, template_vars, cfg) ==
    LET target_file == TargetFile(target_dir, file_template)
    IN  IF st.raised # "" THEN st
        ELSE IF FsExists(st.fs, target_file) /\ cfg.preserve_existing THEN st
        ELSE IF FsExists(st.fs, target_file)
                    /\ FsLookup(st.fs, target_file).node.t = "dict"
             THEN Failed(st, "IsADirectoryError")
        ELSE [st EXCEPT
                 !.fs = FsPut(@, target_file,
                              JStr(Substitute(file_template.content.s, template_vars))),
                 !.ops = Append(@, Op("write", target_file, <<>>))]

\* for file_template in structure.files: self._sync_file(...)
RECURSIVE SyncFiles(_, _, _, _, _)
SyncFiles(st, files, target_dir, template_vars, cfg) ==
    IF files = <<>> THEN st
    ELSE SyncFiles(SyncFile(st, files[1], target_dir, template_vars, cfg),
                   Tail(files), target_dir, template_vars, cfg)

\* StructureSynchronizer.sync_structure, and its loop over the subdirs
RECURSIVE SyncStructure(_, _, _, _, _, _), SyncSubdirs(_, _, _, _, _, _)
SyncStructure(st, structure, target, template_vars, cfg, now) ==
    IF st.raised # "" THEN st
    ELSE LET backed == IF cfg.backup_before_sync THEN CreateBackup(st, target, now)
                                                 ELSE st
             created == Mkdir(backed, target, 1)
             written == SyncFiles(created, structure.files, target, template_vars, cfg)
         IN  SyncSubdirs(written, structure.subdirs, target, template_vars, cfg, now)
SyncSubdirs(st, subdirs, target, template_vars, cfg, now) ==
    IF subdirs = <<>> THEN st
    ELSE SyncSubdirs(SyncStructure(st, subdirs[1], Append(target, subdirs[1].name.s),
                                   template_vars, cfg, now),
                     Tail(subdirs), target, template_vars, cfg, now)

(***************************************************************************)
(* The sync session: sync_structure calls on a target that may exist,      *)
(* while the clock may advance between two calls                           *)
(***************************************************************************)
MaxSyncs == 2
MaxTime == 2

Old == JStr(<<"old">>)

\* the working directory before the first sync: the target T is absent, or
\* holds some of a.txt, new.txt and sub (a directory or a file)
TargetTrees ==
    { JDict(DropAbsent(<<Entry(<<"a.txt">>, a), Entry(<<"sub">>, sub)>>)) :
        a \in {Absent, Old},
        sub \in {Absent, JDict(<<>>), JDict(<<Entry(<<"b.txt">>, Old)>>), Old} }
WorkingDirs ==
    {JDict(<<>>)} \cup {JDict(<<Entry(<<"T">>, t)>>) : t \in TargetTrees}

\* the structures synced: scans of three directories
SyncStructures ==
    { ScanStructure(Dir(<<"/w1">>, <<"root">>, JDict(entries)), 0) :
        entries \in { <<Entry(<<"a.txt">>, JStr(<<"x">>))>>,
                      <<Entry(<<"a.txt">>, JStr(<<"{", "v", "}", "x", "{", "z", "}", "{", "v", "}">>)),
                        Entry(<<"sub">>, JDict(<<Entry(<<"b.txt">>, JStr(<<"y">>))>>))>>,
                      <<Entry(<<"sub">>, JDict(<<Entry(<<"b.txt">>, JStr(<<"y">>)),
                                                 Entry(<<"sub">>, JDict(<<>>))>>))>> } }

\* the template_vars mappings, as their items() in insertion order; a value may
\* hold the placeholder of another variable
TemplateVars ==
    {<<>>, <<Entry(<<"v">>, <<"1">>)>>,
     <<Entry(<<"v">>, <<"1">>), Entry(<<"w">>, <<"2">>)>>,
     <<Entry(<<"v">>, <<"{", "w", "}">>), Entry(<<"w">>, <<"2">>)>>,
     <<Entry(<<"w">>, <<"2">>), Entry(<<"v">>, <<"{", "w", "}">>)>>}

InitSync ==
    /\ fs \in WorkingDirs
    /\ config \in [preserve_existing : BOOLEAN, backup_before_sync : BOOLEAN]
    /\ time = 0 /\ syncs = 0 /\ lastSync = None
    /\ SessionIdle /\ ResultIdle /\ CopyIdle /\ TreeIdle /\ SnapIdle /\ StoreIdle
    /\ RepoIdle

\* sync.sync_structure(structure, 'T', template_vars)
CallSyncStructure ==
    /\ syncs < MaxSyncs
    /\ \E structure \in SyncStructures, template_vars \in TemplateVars :
           LET run == SyncStructure([fs |-> fs, ops |-> <<>>, raised |-> ""],
                                    structure, <<<<"T">>>>, template_vars, config, time)
           IN  /\ fs' = run.fs
               /\ lastSync' = [structure |-> structure, target |-> <<<<"T">>>>,
                               template_vars |-> template_vars,
                               before |-> fs, ops |-> run.ops, raised |-> run.raised]
    /\ syncs' = syncs + 1
    /\ UNCHANGED <<config, time, nonSyncVars>>

\* a second passes
Tick ==
    /\ time < MaxTime
    /\ time' = time + 1
    /\ UNCHANGED <<fs, config, syncs, lastSync, nonSyncVars>>

NextSync ==
    \/ CallSyncStructure
    \/ Tick

SpecSync == InitSync /\ [][NextSync]_vars

(***************************************************************************)
(* repository_initializer.py: RepositoryInitializer on a file system.  A   *)
(* run is [fs, ops, raised] as for sync_structure; what the per-item       *)
(* `except Exception` handlers catch leaves raised empty.                   *)
(***************************************************************************)
\* target_directory / directory
Under(target, directory_path) == target \o SplitPath(directory_path)

\* structure_data.__dict__, the fields in the order of the dataclass
DataDict(data) ==
    JDict(<<Entry(K_project_name, data.project_name),
            Entry(K_github_username, data.github_username),
            Entry(K_created_date, data.created_date),
            Entry(K_version, data.version),
            Entry(K_schema_version, data.schema_version),
            Entry(K_structure, data.structure),
            Entry(K_description, data.description),
            Entry(K_updated_date, data.updated_date),
            Entry(K_template_path, data.template_path),
            Entry(K_tags, data.tags)>>)

\* full_path.mkdir(parents=True, exist_ok=True) in try / except: continue
TryMkdir(st, path) == [Mkdir(st, path, 1) EXCEPT !.raised = ""]

\* RepositoryInitializer._create_directory_structure
RECURSIVE CreateDirectoryStructure(_, _, _, _)
CreateDirectoryStructure(st, directories, target, dry_run) ==
    IF directories = <<>> THEN st
    ELSE CreateDirectoryStructure(
             IF dry_run THEN st ELSE TryMkdir(st, Under(target, directories[1])),
             Tail(directories), target, dry_run)

\* the write that follows path.parent.mkdir(...) inside the try block:
\* `parent_made` is the run after the mkdir
WriteAfterMkdir(parent_made, op, path, text) ==
    IF parent_made.raised # "" THEN [parent_made EXCEPT !.raised = ""]
         ELSE [parent_made EXCEPT !.fs = FsPut(@, path, JStr(text)),
                      !.ops = Append(@, Op(op, path, text))]

\* the creation of one path without the `if not file_path.exists()` test:
\* a file that exists is written again
CreateOverwriting(st, op, path, text, dry_run) ==
    IF dry_run THEN st
    ELSE IF FsExists(st.fs, path) /\ FsLookup(st.fs, path).node.t = "dict" THEN st
    ELSE WriteAfterMkdir(Mkdir(st, SubSeq(path, 1, Len(path) - 1), 1), op, path, text)

\* the body of both creation loops for one path: nothing in a dry run and
\* nothing at a path that exists
CreateWriting(st, op, path, text, dry_run) ==
    IF dry_run \/ FsExists(st.fs, path) THEN st
    ELSE WriteAfterMkdir(Mkdir(st, SubSeq(path, 1, Len(path) - 1), 1), op, path, text)

\* for file_name in files: file_path = target_directory / directory / file_name
RECURSIVE TouchFiles(_, _, _, _)
TouchFiles(st, files, dirpath, dry_run) ==
    IF files = <<>> THEN st
    ELSE TouchFiles(CreateWriting(st, "touch", Append(dirpath, files[1]), <<>>, dry_run),
                    Tail(files), dirpath, dry_run)

\* files = structure_data.get_directory_files(directory) is outside the try
\* block: what it raises ends the call
TouchFilesOf(st, got, dirpath, dry_run) ==
    IF got.raised # "" THEN Failed(st, got.raised)
    ELSE TouchFiles(st, got.files, dirpath, dry_run)

\* RepositoryInitializer._create_placeholder_files
RECURSIVE CreatePlaceholderFiles(_, _, _, _, _)
CreatePlaceholderFiles(st, directories, structure, target, dry_run) ==
    IF directories = <<>> \/ st.raised # "" THEN st
    ELSE CreatePlaceholderFiles(
             TouchFilesOf(st, GetDirectoryFiles(structure, directories[1]),
                          Under(target, directories[1]), dry_run),
             Tail(directories), structure, target, dry_run)

\* StructureData.get_top_level_directories
GetTopLevelDirectories(structure) == [i \in 1..Len(structure.c) |-> structure.c[i].k]

\* RepositoryInitializer._generate_readme_content: the heading, the project
\* name and the date; the fixed sentences and the list of files between
\* them are left out of the text
GenerateReadmeContent(directory, data) ==
    <<"# ">> \o directory \o <<" of ">> \o data.project_name.s
             \o <<" updated ">> \o data.created_date.s

\* RepositoryInitializer._create_readme_files
RECURSIVE CreateReadmeFiles(_, _, _, _, _)
CreateReadmeFiles(st, directories, data, target, dry_run) ==
    IF directories = <<>> \/ st.raised # "" THEN st
    ELSE CreateReadmeFiles(
             CreateWriting(st, "write", Append(Append(target, directories[1]), <<"README.md">>),
                           GenerateReadmeContent(directories[1], data), dry_run),
             Tail(directories), data, target, dry_run)

\* the outcome of initialize_repository: the tree, the changes and the
\* value returned
InitOutcome(fs_, ops, returned) == [fs |-> fs_, ops |-> ops, returned |-> returned]

\* the three creation steps of initialize_repository, for data that passed
\* validation; `except Exception` turns what is raised into False
CreateAll(root, target, data, directories, dry_run) ==
    LET st == CreateReadmeFiles(
                  CreatePlaceholderFiles(
                      CreateDirectoryStructure([fs |-> root, ops |-> <<>>, raised |-> ""],
                                               directories, target, dry_run),
                      directories, data.structure, target, dry_run),
                  GetTopLevelDirectories(data.structure), data, target, dry_run)
    IN  InitOutcome(st.fs, st.ops, st.raised = "")

\* if not validation_result.is_valid: return False; obj.items() of
\* get_directory_structure needs a mapping
CreateIfValid(root, target, data, v, dry_run) ==
    IF v.raised # "" \/ ~v.result.is_valid THEN InitOutcome(root, <<>>, FALSE)
    ELSE IF data.structure.t # "dict" THEN InitOutcome(root, <<>>, FALSE)
    ELSE CreateAll(root, target, data, GetAllDirectories(data.structure), dry_run)

\* structure_data = self.parser.parse_file(...), then validate
InitializeParsed(root, target, parsed, dry_run) ==
    IF parsed.kind = "raise" THEN InitOutcome(root, <<>>, FALSE)
    ELSE CreateIfValid(root, target, parsed.data, Validate(DataDict(parsed.data)), dry_run)

\* RepositoryInitializer.initialize_repository
InitializeRepository(root, target, exists, file_content, dry_run) ==
    InitializeParsed(root, target, ParseFile(exists, file_content), dry_run)

(***************************************************************************)
(* Initializer session: one RepositoryInitializer, built with its dry_run  *)
(* flag, is run up to MaxInits times with one structure file on a working  *)
(* directory in which the target T is absent or holds entries already.     *)
(***************************************************************************)
MaxInits == 2

TargetDir == <<<<"T">>>>

\* structure files: two trees with nested and flat directories, a document
\* whose structure is empty, and text that is not JSON
RepoDoc(structure) ==
    JDict(<<Entry(K_project_name, JStr(<<"p">>)),
            Entry(K_github_username, JStr(<<"u">>)),
            Entry(K_created_date, JStr(<<"d">>)),
            Entry(K_version, JStr(<<"1.0">>)),
            Entry(K_structure, structure)>>)
RepoStructures ==
    { JDict(<<Entry(<<"a">>, JDict(<<Entry(<<"b">>, FileList(<<<<"f.md">>>>))>>)),
              Entry(<<"docs">>, FileList(<<<<"g.md">>, <<"README.md">>>>))>>),
      JDict(<<Entry(<<"a">>, FileList(<<<<"f.md">>>>)),
              Entry(<<"docs">>, FileList(<<<<"g.md">>>>))>>),
      JDict(<<>>) }
StructureFiles == {JsonDumps(RepoDoc(s)) : s \in RepoStructures} \cup {<<Tok("{", <<>>)>>}

\* the working directory before the first call
RepoTargets ==
    { JDict(DropAbsent(<<Entry(<<"a">>, a), Entry(<<"docs">>, docs)>>)) :
        a \in {Absent, Old,
               JDict(<<Entry(<<"README.md">>, Old), Entry(<<"f.md">>, Old)>>),
               JDict(<<Entry(<<"b">>, JDict(<<Entry(<<"f.md">>, Old)>>))>>),
               JDict(<<Entry(<<"b">>, Old)>>)},
        docs \in {Absent, JDict(<<Entry(<<"g.md">>, Old)>>),
                  JDict(<<Entry(<<"README.md">>, Old)>>)} }
RepoDirs == {JDict(<<>>)} \cup {JDict(<<Entry(<<"T">>, t)>>) : t \in RepoTargets}

InitRepo ==
    /\ repo \in RepoDirs
    /\ dryRun \in BOOLEAN
    /\ structureFile \in StructureFiles
    /\ inits = 0
    /\ lastInit = None
    /\ SessionIdle /\ ResultIdle /\ CopyIdle /\ TreeIdle /\ SnapIdle /\ StoreIdle
    /\ SyncIdle

\* initializer.initialize_repository(structure_file, T)
CallInitializeRepository ==
    /\ repo # None
    /\ inits < MaxInits
    /\ \E o \in {InitializeRepository(repo, TargetDir, TRUE, structureFile, dryRun)} :
           /\ repo' = o.fs
           /\ lastInit' = [kind |-> "done", before |-> repo, ops |-> o.ops,
                           returned |-> o.returned]
    /\ inits' = inits + 1
    /\ UNCHANGED <<dryRun, structureFile, nonRepoVars>>

NextRepo == CallInitializeRepository

SpecRepo == InitRepo /\ [][NextRepo]_vars

(***************************************************************************)
(* Properties of the parser session (Spec)                                 *)
(***************************************************************************)
Decoded == JsonLoads(content).v

\* C1: when parse_string accepted the text and its result was exported and
\* the exported file parsed, that parse succeeded and its project_name,
\* version and structure tree equal those of the first parse.
C1_RoundTrip ==
    (ps.kind = "ok" /\ rt # None) =>
        /\ rt.kind = "ok"
        /\ rt.data.project_name = ps.data.project_name
        /\ rt.data.version = ps.data.version
        /\ rt.data.structure = ps.data.structure

\* a v2 document with a nested tree and optional fields went round
C1_Witness ==
    /\ ps.kind = "ok" /\ rt.kind = "ok"
    /\ HasKey(Decoded, K_metadata)
    /\ ps.data.structure = TreeDeep
    /\ Truthy(ps.data.description)
    /\ rt.data.schema_version # ps.data.schema_version

\* the parse of a v1-shaped document whose version begins with "1."
ParsedV1 ==
    /\ ps.kind = "ok"
    /\ ~HasKey(Decoded, K_metadata)
    /\ StartsWith(ps.data.version.s, <<"1", ".">>)

SameIdentity(a, b) ==
    /\ a.structure = b.structure
    /\ a.project_name = b.project_name
    /\ a.github_username = b.github_username

C3_ValidateNeverRaises == vr # None => vr.out.raised = ""

\* C4: for an existing file, parse_file fails with the typed failure that
\* parse_string raises on the content: the same type, and the same
\* line_number and column (ParseError) or the same error list
\* (ValidationError).
C4_ParseFileSameFailure ==
    (pf # None /\ ps.kind = "raise" /\ ps.exc.type \in {"ParseError", "ValidationError"}
        /\ ~(pf.kind = "raise" /\ pf.exc.type = "FileNotFoundError")) =>
        /\ pf.kind = "raise"
        /\ pf.exc.type = ps.exc.type
        /\ pf.exc.line_number = ps.exc.line_number
        /\ pf.exc.column = ps.exc.column
        /\ pf.exc.errors = ps.exc.errors

\* C5: for a decodable text, parse_string returns a StructureData exactly
\* when validate has is_valid True; otherwise it raises one ValidationError
\* whose errors list has one entry per error of the result, in order.
C5_ParseStringFollowsValidate ==
    (vr # None /\ ps # None) =>
        IF vr.out.raised = "" /\ vr.out.result.is_valid
        THEN ps.kind = "ok"
        ELSE /\ ps.kind = "raise"
             /\ ps.exc.type = "ValidationError"
             /\ vr.out.raised = ""
             /\ Len(ps.exc.errors) = Len(vr.out.result.errors)
             /\ \A i \in 1..Len(ps.exc.errors) :
                    ps.exc.errors[i] = ErrorStr(vr.out.result.errors[i])

\* what C7 says of one call of _migrate_structure(input, target)
MigrateContract(input, call) ==
    LET supported == StartsWith(input.version.s, <<"1", ".">>) /\ call.target = V_2_0
    IN  /\ call.out.kind = "ok" => supported /\ call.out.data # input
        /\ ~supported =>
               /\ call.out.kind = "raise"
               /\ call.out.exc.type = "MigrationError"
               /\ IsSubstr(input.version.s, call.out.exc.message)
               /\ IsSubstr(call.target, call.out.exc.message)

\* C7: _migrate_structure succeeds only from a version starting with "1."
\* to target "2.0"; for every other pair it raises MigrationError with both
\* versions in the message, and it never returns its input unchanged.
C7_MigrateOnlyV1ToV2 ==
    /\ mig # None => MigrateContract(ps.data, mig)
    /\ mig2 # None => MigrateContract(mig.out.data, mig2)

\* a version "2.0" document asked to migrate to "2.0" raised
C7_Witness ==
    /\ mig # None /\ mig.target = V_2_0
    /\ ps.data.version = JStr(V_2_0)
    /\ mig.out.kind = "raise"

\* a value of the structure tree: a mapping of such values, or a list of
\* strings
RECURSIVE IsTreeValue(_)
IsTreeValue(v) ==
    \/ v.t = "list" /\ \A i \in 1..Len(v.c) : v.c[i].v.t = "str"
    \/ v.t = "dict" /\ \A i \in 1..Len(v.c) : IsTreeValue(v.c[i].v)

TreeInvariant(data) ==
    /\ data.structure.t = "dict"
    /\ data.structure.c # <<>>
    /\ IsTreeValue(data.structure)

\* C12: every StructureData returned by parse_string or parse_file has a
\* structure that is a non-empty mapping whose values are, at every depth,
\* mappings or lists of strings
C12_ParsedTreeInvariant ==
    /\ (ps # None /\ ps.kind = "ok") => TreeInvariant(ps.data)
    /\ (pf # None /\ pf.kind = "ok") => TreeInvariant(pf.data)

\* the decoded text is a v1 or v2 document whose project_name is ""
EmptyProjectName ==
    /\ Decoded.t = "dict"
    /\ IF HasKey(Decoded, K_metadata)
       THEN /\ Lookup(Decoded, K_metadata).t = "dict"
            /\ HasKey(Lookup(Decoded, K_metadata), K_project_name)
            /\ Lookup(Lookup(Decoded, K_metadata), K_project_name) = EmptyStr
       ELSE /\ HasKey(Decoded, K_project_name)
            /\ Lookup(Decoded, K_project_name) = EmptyStr

ProjectNamePath == IF HasKey(Decoded, K_metadata) THEN <<"metadata.">> \o K_project_name
                                                   ELSE K_project_name

\* C13: on a document whose project_name is the empty string, validate
\* returns is_valid False with an error located at the project_name field,
\* and parse_string raises a ValidationError that lists every error of the
\* result, that error and the missing-field errors included
C13_EmptyProjectNameRejected ==
    (JsonLoads(content).ok /\ EmptyProjectName) =>
        /\ vr # None =>
               /\ vr.out.raised = ""
               /\ ~vr.out.result.is_valid
               /\ \E i \in 1..Len(vr.out.result.errors) :
                      vr.out.result.errors[i].path = ProjectNamePath
        /\ (ps # None /\ vr # None /\ vr.out.raised = "") =>
               /\ ps.kind = "raise"
               /\ ps.exc.type = "ValidationError"
               /\ ps.exc.errors = [i \in 1..Len(vr.out.result.errors) |->
                                       ErrorStr(vr.out.result.errors[i])]

\* C14: a parser with a loaded schema validator returns from validate what
\* SchemaValidator.validate returns on the same data, and parse_string
\* accepts the text exactly when that result is valid
C14_ValidateDelegatesToSchema ==
    (validator # None /\ JsonLoads(content).ok
        /\ SchemaValidate(validator, Decoded).raised = "") =>
        /\ vr # None => vr.out = SchemaValidate(validator, Decoded)
        /\ ps # None =>
               (ps.kind = "ok") = SchemaValidate(validator, Decoded).result.is_valid

(***************************************************************************)
(* Properties of the result session (SpecResult)                           *)
(***************************************************************************)
\* C6: is_valid is True exactly while no add_error call has been made (so
\* it is False from the first add_error on and warnings never change it),
\* and error_count / warning_count equal the numbers of calls made.
C6_ValidityMonotone ==
    result # None =>
        /\ result.is_valid <=> (errCalls = 0)
        /\ ErrorCount(result) = errCalls
        /\ WarningCount(result) = warnCalls

\* an error was followed by further calls, warnings among them
C6_Witness ==
    /\ result # None
    /\ errCalls >= 1 /\ warnCalls >= 1 /\ errCalls + warnCalls = MaxCalls
    /\ ~result.is_valid

(***************************************************************************)
(* Properties of the copy session (SpecCopy)                               *)
(***************************************************************************)
Touched(which) == \E i \in 1..Len(touched) : touched[i] = which

\* C8: migration leaves its input as it was, and the two trees share no
\* node: while the caller has changed only one of the two StructureData,
\* the other still has the field values and the tree it had at migration.
C8_MigrationDeepCopies ==
    migrated # None =>
        /\ ~Touched("source") => View(heap, source) = sourceBefore
        /\ ~Touched("migrated") => View(heap, migrated) = migratedAfter

(***************************************************************************)
(* Properties of the tree session (SpecTree)                               *)
(***************************************************************************)
\* C9: has_directory returns True for every path that get_all_directories
\* returned on the same tree.
C9_ListedDirectoriesExist ==
    (probe # None /\ \E i \in 1..Len(allDirs.items) : allDirs.items[i] = probe.path)
        => probe.found

\* the list-valued nodes of a tree, each with the keys leading to it
RECURSIVE ListNodes(_, _)
ListNodes(c, keys) ==
    IF c = <<>> THEN <<>>
    ELSE (IF c[1].v.t = "list" THEN <<[keys |-> Append(keys, c[1].k), files |-> c[1].v]>>
          ELSE IF c[1].v.t = "dict" THEN ListNodes(c[1].v.c, Append(keys, c[1].k))
          ELSE <<>>)
         \o ListNodes(Tail(c), keys)

\* "/".join(keys)
RECURSIVE SlashJoin(_)
SlashJoin(keys) ==
    IF Len(keys) = 1 THEN keys[1] ELSE keys[1] \o <<"/">> \o SlashJoin(Tail(keys))

\* how many times name occurs in the file lists of the entries
RECURSIVE Occurrences(_, _)
Occurrences(lists, name) ==
    IF lists = <<>> THEN 0
    ELSE Cardinality({i \in 1..Len(lists[1].c) : lists[1].c[i].v = JStr(name)})
         + Occurrences(Tail(lists), name)

\* C10: get_all_files has exactly one entry per list-valued node, keyed by
\* the node's slash-joined path and holding the node's list, so every file
\* name occurs in the entries as often as in the tree.
C10_AllFilesOncePerNode ==
    allFiles # None =>
        LET nodes == ListNodes(tree.c, <<>>)
        IN  /\ Len(allFiles.entries) = Len(nodes)
            /\ \A i \in 1..Len(nodes) :
                   \E j \in 1..Len(allFiles.entries) :
                       /\ allFiles.entries[j].k = SlashJoin(nodes[i].keys)
                       /\ allFiles.entries[j].v = nodes[i].files
            /\ \A name \in FileNames :
                   Occurrences([j \in 1..Len(allFiles.entries) |-> allFiles.entries[j].v], name)
                       = Occurrences([i \in 1..Len(nodes) |-> nodes[i].files], name)

\* the node a slash-delimited path names: each part is a key of the mapping
\* reached so far
RECURSIVE NodeAt(_, _)
NodeAt(current, parts) ==
    IF parts = <<>> THEN [found |-> TRUE, node |-> current]
    ELSE IF current.t = "dict" /\ HasKey(current, parts[1])
         THEN NodeAt(Lookup(current, parts[1]), Tail(parts))
         ELSE [found |-> FALSE, node |-> current]

\* the reference result of get_directory_files
ReferenceFiles(structure, path) ==
    LET at == NodeAt(structure, SplitPath(path))
    IN  IF ~at.found THEN <<>>
        ELSE IF at.node.t = "list" THEN Names(at.node)
        ELSE ExtendLists(at.node.c)

\* C11: get_directory_files(p) never raises and returns the node's own list
\* for a list-valued node, the lists of the list-valued children in key order
\* for a mapping, and the empty list for a path that names no node
C11_DirectoryFilesReference ==
    dirFiles # None =>
        /\ dirFiles.out.raised = ""
        /\ dirFiles.out.files = ReferenceFiles(tree, dirFiles.path)

(***************************************************************************)
(* Properties of the snapshot session (SpecSnap)                           *)
(***************************************************************************)
\* the FileTemplates of a DirectoryStructure, at every depth
RECURSIVE TemplatesOf(_)
TemplatesOf(structure) ==
    {structure.files[i] : i \in 1..Len(structure.files)}
        \cup UNION {TemplatesOf(structure.subdirs[i]) : i \in 1..Len(structure.subdirs)}

\* every FileTemplate of the state, however it was made
AllTemplates ==
    (IF snapA # None THEN TemplatesOf(snapA) ELSE {})
        \cup (IF snapB # None THEN TemplatesOf(snapB) ELSE {})
        \cup (IF made # None THEN {made} ELSE {})
        \cup (IF rebuilt # None /\ rebuilt.raised = "" THEN TemplatesOf(rebuilt.value)
                                                       ELSE {})

\* C15: two FileTemplates, scanned, constructed directly or rebuilt by
\* from_dict, have the same checksum exactly when they have the same content
C15_ChecksumIffContent ==
    \A t1, t2 \in AllTemplates :
        (t1.content = t2.content) <=> (t1.checksum = t2.checksum)

\* dirB holds the entries of dirA, with the same contents, and new.txt
PlusNewFile ==
    /\ ~HasKey(dirA.tree, <<"new.txt">>)
    /\ {dirB.tree.c[i] : i \in 1..Len(dirB.tree.c)}
           = {dirA.tree.c[i] : i \in 1..Len(dirA.tree.c)}
                 \cup {Entry(<<"new.txt">>, JStr(<<"n">>))}

\* C17: when the second directory is the first plus the top-level file
\* new.txt, compare_structures(first, second) returns files_added ==
\* ['new.txt'], files_removed == [] and files_modified == []
C17_OnlyNewFileAdded ==
    (diffAB # None /\ PlusNewFile) =>
        /\ diffAB.files_added = {<<"new.txt">>}
        /\ diffAB.files_removed = {}
        /\ diffAB.files_modified = {}

\* a snapshot with its lists in another order
Reordered(structure) ==
    { [structure EXCEPT !.files = files, !.subdirs = subdirs] :
        files \in Orderings(structure.files),
        subdirs \in Orderings(structure.subdirs) }

CompareSymmetric ==
    (diffAB # None /\ diffBA # None) =>
        /\ diffAB.files_added = diffBA.files_removed
        /\ diffAB.files_removed = diffBA.files_added
        /\ diffAB.dirs_added = diffBA.dirs_removed
        /\ diffAB.dirs_removed = diffBA.dirs_added
        /\ diffAB.files_modified = diffBA.files_modified
        /\ \A a \in Reordered(snapA), b \in Reordered(snapB) :
               /\ CompareStructures(a, b) = diffAB
               /\ CompareStructures(b, a) = diffBA

\* C18: compare_structures(A, B) and compare_structures(B, A) have swapped
\* added/removed sets and equal files_modified sets, whatever the order of
\* the files and subdirs lists, and a compare call leaves both snapshots as
\* they were
C18_CompareSymmetry ==
    /\ []CompareSymmetric
    /\ [][(CompareAB \/ CompareBA) => (snapA' = snapA /\ snapB' = snapB)]_vars

C18_Witness ==
    /\ diffAB # None /\ diffBA # None
    /\ diffAB.files_modified # {}
    /\ diffAB.files_removed # {} /\ diffBA.files_added # {}
    /\ diffAB.dirs_removed # {}
    /\ Len(snapA.files) > 1

(***************************************************************************)
(* Properties of the store session (SpecStore)                             *)
(***************************************************************************)
SavedNames == {n \in StoreNames : saved[n] # None}

\* C19: list_structures() returns exactly the names saved, load_structure
\* of a saved name returns a structure equal to the one last saved under
\* it, and load_structure of a name never saved raises the not-found error
C19_StoreIsMap ==
    /\ listing # None => listing.names = SavedNames
    /\ loaded # None =>
           IF loaded.name \in SavedNames
           THEN loaded.out.raised = "" /\ loaded.out.value = saved[loaded.name]
           ELSE loaded.out.raised = "FileNotFoundError"

(***************************************************************************)
(* Properties of the sync session (SpecSync)                               *)
(***************************************************************************)
\* the destination paths of the files of a structure, at every depth
RECURSIVE Destinations(_, _)
Destinations(structure, target) ==
    {TargetFile(target, structure.files[i]) : i \in 1..Len(structure.files)}
        \cup UNION { Destinations(structure.subdirs[i],
                                  Append(target, structure.subdirs[i].name.s)) :
                     i \in 1..Len(structure.subdirs) }

IsFileAt(root, path) == FsExists(root, path) /\ FsLookup(root, path).node.t = "str"

\* C16: with preserve_existing enabled, every file of the structure whose
\* destination was a file before the sync has the same content after it
C16_ExistingFilesPreserved ==
    (lastSync # None /\ config.preserve_existing) =>
        \A d \in Destinations(lastSync.structure, lastSync.target) :
            IsFileAt(lastSync.before, d) =>
                FsLookup(fs, d) = FsLookup(lastSync.before, d)

C16_Witness ==
    /\ lastSync # None /\ config.preserve_existing /\ lastSync.raised = ""
    /\ \E d \in Destinations(lastSync.structure, lastSync.target) :
           /\ Len(d) > 2
           /\ IsFileAt(lastSync.before, d)
    /\ \E i \in 1..Len(lastSync.ops) : lastSync.ops[i].op = "write"

\* the sibling directory that holds the backup a sync took of its target
BackupTaken ==
    /\ lastSync.ops # <<>>
    /\ lastSync.ops[1].op = "copytree"
    /\ lastSync.ops[1].src = lastSync.target
    /\ Len(lastSync.ops[1].path) = Len(lastSync.target)
    /\ ~FsExists(lastSync.before, lastSync.ops[1].path)
    /\ FsLookup(fs, lastSync.ops[1].path) = FsLookup(lastSync.before, lastSync.target)

\* C20: with backup_before_sync enabled and a target directory that exists,
\* a sync copies the target to the sibling <name>_backup_<timestamp> before
\* it changes anything else, and that copy is the target tree as it was
\* before the sync
C20_BackupBeforeWrites ==
    (/\ lastSync # None /\ config.backup_before_sync
     /\ FsExists(lastSync.before, lastSync.target)
     /\ FsLookup(lastSync.before, lastSync.target).node.t = "dict") =>
        BackupTaken

\* a sync that changed something took its backup first
BackupFirstWhenChanged ==
    (/\ lastSync # None /\ config.backup_before_sync
     /\ FsExists(lastSync.before, lastSync.target)
     /\ lastSync.ops # <<>>) =>
        /\ lastSync.ops[1].op = "copytree"
        /\ lastSync.ops[1].src = lastSync.target
        /\ Len(lastSync.ops[1].path) = Len(lastSync.target)
        /\ ~FsExists(lastSync.before, lastSync.ops[1].path)
        /\ FsLookup(fs, lastSync.ops[1].path) = FsLookup(lastSync.before, lastSync.target)

\* the files of a structure with their destination paths, at every depth
RECURSIVE Placements(_, _)
Placements(structure, target) ==
    {[dest |-> TargetFile(target, structure.files[i]), file |-> structure.files[i]] :
        i \in 1..Len(structure.files)}
        \cup UNION { Placements(structure.subdirs[i],
                                Append(target, structure.subdirs[i].name.s)) :
                     i \in 1..Len(structure.subdirs) }

\* position i of text starts the placeholder {var}
PlaceholderAt(text, i, var) ==
    /\ i >= 1 /\ i + 2 <= Len(text)
    /\ text[i] = "{" /\ <<text[i + 1]>> = var /\ text[i + 2] = "}"

\* text with every occurrence of the placeholder {var} replaced by value and
\* every other position kept, position by position
RECURSIVE Pieces(_, _, _, _)
Pieces(text, i, var, value) ==
    IF i > Len(text) THEN <<>>
    ELSE (IF PlaceholderAt(text, i, var) THEN value
          ELSE IF PlaceholderAt(text, i - 1, var) \/ PlaceholderAt(text, i - 2, var)
               THEN <<>>
               ELSE <<text[i]>>)
         \o Pieces(text, i + 1, var, value)

\* the placeholders replaced for each variable of the mapping in turn
RECURSIVE Filled(_, _)
Filled(text, template_vars) ==
    IF template_vars = <<>> THEN text
    ELSE Filled(Pieces(text, 1, template_vars[1].k, template_vars[1].v),
                Tail(template_vars))

WrittenPaths == {lastSync.ops[i].path : i \in {j \in 1..Len(lastSync.ops) :
                                                  lastSync.ops[j].op = "write"}}

C28_OrderIndependent ==
    lastSync # None =>
        \A d \in WrittenPaths :
            \A p \in Placements(lastSync.structure, lastSync.target) :
                p.dest = d =>
                    \A items \in Orderings(lastSync.template_vars) :
                        FsLookup(fs, d).node = JStr(Substitute(p.file.content.s, items))

\* the paths a structure names below a target: the target, the destinations
\* of its files and the same for its sub-directories
RECURSIVE NamedPaths(_, _)
NamedPaths(structure, target) ==
    {target}
        \cup {TargetFile(target, structure.files[i]) : i \in 1..Len(structure.files)}
        \cup UNION { NamedPaths(structure.subdirs[i],
                                Append(target, structure.subdirs[i].name.s)) :
                     i \in 1..Len(structure.subdirs) }

IsBelow(path, dir) ==
    Len(path) > Len(dir) /\ SubSeq(path, 1, Len(dir)) = dir

\* C27: every entry a sync creates inside the target tree is named by the
\* structure, and every backup copy is made before the first file write
C27_OnlyNamedEntriesAdded ==
    lastSync # None =>
        /\ \A i \in 1..Len(lastSync.ops) :
               IsBelow(lastSync.ops[i].path, lastSync.target) =>
                   lastSync.ops[i].path \in NamedPaths(lastSync.structure, lastSync.target)
        /\ \A i, j \in 1..Len(lastSync.ops) :
               (lastSync.ops[i].op = "write" /\ lastSync.ops[j].op = "copytree") => j < i

(***************************************************************************)
(* Properties of the scan session (SpecScan)                               *)
(***************************************************************************)
Items(dir) == {dir.c[i] : i \in 1..Len(dir.c)}

\* the text files and the directories of a directory tree that lie below
\* no excluded entry, each with the names of the directories above it
RECURSIVE KeptFiles(_, _)
KeptFiles(dir, where) ==
    {[dir |-> where, name |-> e.k, content |-> e.v] :
        e \in {i \in Items(dir) : i.v.t = "str" /\ ~Excluded(i.k, ExcludePatterns)}}
        \cup UNION { KeptFiles(e.v, Append(where, e.k)) :
                     e \in {i \in Items(dir) :
                              i.v.t = "dict" /\ ~Excluded(i.k, ExcludePatterns)} }
RECURSIVE KeptDirs(_, _)
KeptDirs(dir, where) ==
    UNION { {Append(where, e.k)} \cup KeptDirs(e.v, Append(where, e.k)) :
            e \in {i \in Items(dir) : i.v.t = "dict" /\ ~Excluded(i.k, ExcludePatterns)} }

\* the same of a DirectoryStructure
RECURSIVE FilesIn(_, _)
FilesIn(structure, where) ==
    {[dir |-> where, name |-> Basename(structure.files[i].path.s),
      content |-> structure.files[i].content] : i \in 1..Len(structure.files)}
        \cup UNION { FilesIn(structure.subdirs[i],
                             Append(where, structure.subdirs[i].name.s)) :
                     i \in 1..Len(structure.subdirs) }
RECURSIVE DirsIn(_, _)
DirsIn(structure, where) ==
    UNION { {Append(where, structure.subdirs[i].name.s)}
                \cup DirsIn(structure.subdirs[i],
                            Append(where, structure.subdirs[i].name.s)) :
            i \in 1..Len(structure.subdirs) }

RECURSIVE FileCount(_)
FileCount(structure) ==
    Len(structure.files)
        + (IF structure.subdirs = <<>> THEN 0
           ELSE FileCount(structure.subdirs[1])
                + FileCount([structure EXCEPT !.files = <<>>, !.subdirs = Tail(@)]))

RECURSIVE GlobMatch(_, _)
GlobMatch(pattern, name) ==
    IF pattern = <<>> THEN name = <<>>
    ELSE IF pattern[1] = "*"
         THEN \E n \in 0..Len(name) :
                  GlobMatch(Tail(pattern), SubSeq(name, n + 1, Len(name)))
         ELSE /\ name # <<>>
              /\ name[1] = pattern[1]
              /\ GlobMatch(Tail(pattern), Tail(name))

\* the name matches a configured pattern, as a glob or as a substring
MatchesPattern(name) ==
    \E i \in 1..Len(ExcludePatterns) :
        GlobMatch(ExcludePatterns[i], name) \/ IsSubstr(ExcludePatterns[i], name)

\* the names of all entries of a directory tree
RECURSIVE AllNames(_)
AllNames(dir) ==
    {e.k : e \in Items(dir)}
        \cup UNION {AllNames(e.v) : e \in {i \in Items(dir) : i.v.t = "dict"}}

\* C25: no file or directory of a scan result has a name that matches an
\* exclusion pattern as a glob or as a substring, at any depth, and the
\* pattern check excludes no name that matches none
C25_ExcludedEntriesAbsent ==
    (snapA # None /\ dirA # Missing) =>
        /\ \A f \in FilesIn(snapA.value, <<>>) : ~MatchesPattern(f.name)
        /\ \A d \in DirsIn(snapA.value, <<>>) : ~MatchesPattern(d[Len(d)])
        /\ \A name \in AllNames(dirA.tree) :
               Excluded(name, ExcludePatterns) => MatchesPattern(name)

\* the part of C25 that holds: entries whose name contains a pattern
ExcludedBySubstringAbsent ==
    (snapA # None /\ dirA # Missing) =>
        /\ \A f \in FilesIn(snapA.value, <<>>) : ~Excluded(f.name, ExcludePatterns)
        /\ \A d \in DirsIn(snapA.value, <<>>) : ~Excluded(d[Len(d)], ExcludePatterns)

(***************************************************************************)
(* Properties of the snapshot session at depth (SpecSnap)                  *)
(***************************************************************************)
\* the files of a DirectoryStructure with their checksums, at every depth
RECURSIVE ChecksumsIn(_, _)
ChecksumsIn(structure, where) ==
    {[dir |-> where, path |-> structure.files[i].path,
      checksum |-> structure.files[i].checksum] : i \in 1..Len(structure.files)}
        \cup UNION { ChecksumsIn(structure.subdirs[i],
                                 Append(where, structure.subdirs[i].name.s)) :
                     i \in 1..Len(structure.subdirs) }

NoDifferences(diff) ==
    /\ diff.files_added = {} /\ diff.files_removed = {} /\ diff.files_modified = {}
    /\ diff.dirs_added = {} /\ diff.dirs_removed = {}

\* C29: when compare_structures(A, B) reports no difference, A and B hold
\* the same files with the same checksums and the same sub-directories at
\* every depth
C29_NoDifferenceMeansEqualTrees ==
    (diffAB # None /\ NoDifferences(diffAB)) =>
        /\ ChecksumsIn(snapA, <<>>) = ChecksumsIn(snapB, <<>>)
        /\ DirsIn(snapA, <<>>) = DirsIn(snapB, <<>>)

\* the part of C29 that holds: the top level
NoDifferenceMeansEqualTopLevel ==
    (diffAB # None /\ NoDifferences(diffAB)) =>
        /\ ChecksumsIn([snapA EXCEPT !.subdirs = <<>>], <<>>)
               = ChecksumsIn([snapB EXCEPT !.subdirs = <<>>], <<>>)
        /\ {snapA.subdirs[i].name : i \in 1..Len(snapA.subdirs)}
               = {snapB.subdirs[i].name : i \in 1..Len(snapB.subdirs)}

(***************************************************************************)
(* Properties of the schema session (SpecSchema)                           *)
(***************************************************************************)
\* metadata = data.get('metadata', data)
MetadataOf(data) == DictGet(data, K_metadata, data)

HasEntry(entries, message) ==
    \E i \in 1..Len(entries) : entries[i].message = message

\* the conditions of the username, structure and version rules
UsernameMissing(data) ==
    ~Truthy(DictGet(MetadataOf(data), K_github_username, EmptyStr))
StructureMissing(data) ==
    ~Truthy(DictGet(data, K_structure, JDict(<<>>)))
VersionMalformed(data) ==
    /\ DictGet(MetadataOf(data), K_version, EmptyStr).t = "str"
    /\ DictGet(MetadataOf(data), K_version, EmptyStr).s # <<>>
    /\ ~IsValidVersion(DictGet(MetadataOf(data), K_version, EmptyStr).s)

\* C24: on every document (an object whose metadata is an object), the
\* result of SchemaValidator.validate holds the entry of the username rule,
\* of the structure rule and of the version rule whenever the rule's
\* condition is violated, whatever project_name is
C24_EveryRuleApplied ==
    (/\ vr # None
     /\ Decoded.t = "dict"
     /\ MetadataOf(Decoded).t = "dict") =>
        /\ vr.out.raised = ""
        /\ UsernameMissing(Decoded) =>
               HasEntry(vr.out.result.errors, <<"GitHub username is required">>)
        /\ StructureMissing(Decoded) =>
               HasEntry(vr.out.result.errors, <<"Structure definition is required">>)
        /\ VersionMalformed(Decoded) =>
               HasEntry(vr.out.result.warnings,
                        <<"Version should follow semantic versioning (e.g., 1.0.0)">>)

\* the part of C24 that holds: a project_name that is absent or a string
RulesAppliedForStringProjectName ==
    (/\ vr # None
     /\ Decoded.t = "dict"
     /\ MetadataOf(Decoded).t = "dict"
     /\ DictGet(MetadataOf(Decoded), K_project_name, EmptyStr).t = "str") =>
        /\ vr.out.raised = ""
        /\ UsernameMissing(Decoded) =>
               HasEntry(vr.out.result.errors, <<"GitHub username is required">>)
        /\ StructureMissing(Decoded) =>
               HasEntry(vr.out.result.errors, <<"Structure definition is required">>)

(***************************************************************************)
(* Properties of the initializer session (SpecRepo)                        *)
(***************************************************************************)
\* the files of a tree: [path, node] for every node that is not a directory
RECURSIVE ExistingFiles(_, _)
ExistingFiles(node, path) ==
    IF node.t # "dict" THEN {[path |-> path, node |-> node]}
    ELSE UNION {ExistingFiles(node.c[i].v, Append(path, node.c[i].k)) : i \in 1..Len(node.c)}

\* the structure of the file the initializer was given
GivenStructure == ParseFile(TRUE, structureFile).data.structure

\* the leaf files of a structure: for every list-valued node, the path of
\* the node followed by each name of its list
RECURSIVE LeafPlaces(_, _)
LeafPlaces(c, path) ==
    IF c = <<>> THEN {}
    ELSE LeafPlaces(Tail(c), path)
         \cup (IF c[1].v.t = "list"
               THEN {Append(Append(path, c[1].k), c[1].v.c[i].v.s) : i \in 1..Len(c[1].v.c)}
               ELSE IF c[1].v.t = "dict" THEN LeafPlaces(c[1].v.c, Append(path, c[1].k))
               ELSE {})

\* the README.md of every top-level directory
ReadmePlaces(c, path) == {Append(Append(path, c[i].k), <<"README.md">>) : i \in 1..Len(c)}

PlaceholderOps == {i \in 1..Len(lastInit.ops) : lastInit.ops[i].op = "touch"}

\* C23: initialize_repository in non-dry-run mode never changes the content
\* of a file that exists under the target directory before the call: every
\* file of the tree before the call is, after it, a file at the same path
\* with the same content.
C23_ExistingFilesUnchanged ==
    (lastInit # None /\ ~dryRun) =>
        \A f \in ExistingFiles(lastInit.before, <<>>) :
            FsLookup(repo, f.path) = [found |-> TRUE, node |-> f.node]

\* a call that returned True and created placeholders, on a target that held
\* a file at a path the structure names as a leaf file or as a README
C23_Witness ==
    /\ lastInit # None /\ ~dryRun /\ lastInit.returned
    /\ PlaceholderOps # {}
    /\ \E i \in 1..Len(lastInit.ops) : lastInit.ops[i].op = "write"
    /\ \E f \in ExistingFiles(lastInit.before, <<>>) :
           f.path \in LeafPlaces(GivenStructure.c, TargetDir)
                          \cup ReadmePlaces(GivenStructure.c, TargetDir)

\* C26: in non-dry-run mode a call that returns True creates placeholder
\* files only at the leaf places of the structure (the path of a list-valued
\* node followed by a name of its list), no place twice, and on a target
\* that did not exist it creates every leaf place.
C26_LeafFilesOnlyInOwningDirectory ==
    (lastInit # None /\ ~dryRun /\ lastInit.returned) =>
        /\ \A i \in PlaceholderOps :
               lastInit.ops[i].path \in LeafPlaces(GivenStructure.c, TargetDir)
        /\ \A i, j \in PlaceholderOps :
               lastInit.ops[i].path = lastInit.ops[j].path => i = j
        /\ lastInit.before = JDict(<<>>) =>
               \A p \in LeafPlaces(GivenStructure.c, TargetDir) :
                   \E i \in PlaceholderOps : lastInit.ops[i].path = p

\* the part of C26 that holds: every leaf place is created on a target that
\* did not exist, and no place is created twice
LeafFilesCreatedOnce ==
    (lastInit # None /\ ~dryRun /\ lastInit.returned) =>
        /\ \A i, j \in PlaceholderOps :
               lastInit.ops[i].path = lastInit.ops[j].path => i = j
        /\ lastInit.before = JDict(<<>>) =>
               \A p \in LeafPlaces(GivenStructure.c, TargetDir) :
                   \E i \in PlaceholderOps : lastInit.ops[i].path = p

\* a dry run changes nothing
DryRunChangesNothing ==
    (lastInit # None /\ dryRun) => repo = lastInit.before /\ lastInit.ops = <<>>

(***************************************************************************)
(* Properties of the load session (SpecLoad)                               *)
(***************************************************************************)
\* C30: load_structure_with_migration(file, '2.0') on a valid v2 document
\* (metadata.schema_version '2.0.0') returns what parse_file(file) returns,
\* whatever the project version of the document is.
C30_LoadOfV2IsParseFile ==
    (pf # None /\ pf.kind = "ok" /\ pf.data.schema_version = JStr(V_2_0_0)
        /\ mig # None /\ mig.target = V_2_0)
    => mig.out = pf

\* the part of C30 that holds: a document whose project version is '2.0' is
\* returned as parsed
LoadOfVersion20IsParseFile ==
    (pf # None /\ pf.kind = "ok" /\ pf.data.version = JStr(V_2_0)
        /\ mig # None /\ mig.target = V_2_0)
    => mig.out = pf

====
